---- MODULE Spec2Model ----
(***************************************************************************)
(* News platform REST API (Express + mysql2): the request handlers of the  *)
(* users, categories, articles and comments routers, the register and      *)
(* login routers, the authentication and validation middleware, and the    *)
(* MySQL schema with its foreign keys.  Every request runs in a slot; the  *)
(* middleware stack and the synchronous prefix of a handler run together   *)
(* with the first awaited storage statement, and every later statement is  *)
(* one further step, so statements of concurrent requests interleave       *)
(* freely.  The response is sent in the step of the last statement.        *)
(***************************************************************************)
EXTENDS Integers, Sequences, FiniteSets, TLC

(***************************************************************************)
(* Bounds of the model.                                                    *)
(***************************************************************************)
MaxRequests == 2      \* requests received in one behaviour
MaxTicks == 1         \* steps of the clock in one behaviour
TickHours == 25       \* hours in one step of the clock

Slots == {1, 2}       \* requests in flight at the same time

(***************************************************************************)
(* Program constants.                                                      *)
(***************************************************************************)
TokenHours == 24      \* jwt.sign(..., { expiresIn: "24h" })
UsernameMin == 2      \* z.string().min(2, ...)
TextMin == 1          \* z.string().min(1, ...)

(***************************************************************************)
(* Values of request inputs.  Undefined stands for an absent string field  *)
(* and NoId for an absent numeric field; "x" is a username below the       *)
(* minimum length, "" a text below it and "nomail" a string that is not an *)
(* e-mail address.                                                         *)
(***************************************************************************)
Undefined == "undefined"
NoId == 0
Usernames == {"alice", "carla"}
Emails == {"a@ex.com", "c@ex.com"}
Passwords == {"pw1", "pw2"}
BadEmail == "nomail"
BadUsername == "x"
BadText == ""
\* route parameters :id as character sequences
IdParams == {<<"1">>, <<"2">>, <<"x">>}
\* the parameters :id of the requests that read one row: also zero and a signed
\* number
ReadIdParams == IdParams \cup {<<"0">>, <<"-", "1">>}
ReadsOne == {"GET /users/:id", "GET /categories/:id", "GET /articles/:id", "GET /comments/:id"}
\* query parameters page and limit as character sequences; <<>> is a parameter
\* that is not given
QueryParams == {<<>>, <<"x">>, <<"1">>, <<"2">>, <<"-", "1">>}
Digits == <<"0", "1", "2", "3", "4", "5", "6", "7", "8", "9">>

NoBody == [none |-> TRUE]

Ops ==
  {"POST /register", "POST /login",
   "GET /users", "GET /users/:id", "GET /users/:id/comments",
   "GET /users/:id/articles", "PUT /users/:id", "PATCH /users/:id",
   "DELETE /users/:id",
   "GET /categories", "GET /categories/:id", "GET /categories/:id/articles",
   "POST /categories",
   "PUT /categories/:id", "PATCH /categories/:id", "DELETE /categories/:id",
   "GET /articles", "GET /articles/:id", "GET /articles/:id/comments",
   "POST /articles", "PUT /articles/:id",
   "PATCH /articles/:id", "DELETE /articles/:id",
   "GET /comments", "GET /comments/:id", "POST /comments", "PUT /comments/:id",
   "PATCH /comments/:id", "DELETE /comments/:id"}

VARIABLES
  users,        \* table users: id -> [username, email, password]
  categories,   \* table categories: id -> [name, description]
  articles,     \* table articles: id -> [title, body, category_id, submitter_id]
  comments,     \* table comments: id -> [content, article_id, user_id]
  autoInc,      \* AUTO_INCREMENT counter of each table
  issued,       \* tokens signed by generateToken so far
  now,          \* clock, in hours
  req,          \* the request in flight in each slot
  last,         \* the response sent last, with the request it answers
  started       \* number of requests received so far

tables == <<users, categories, articles, comments, autoInc>>
vars == <<users, categories, articles, comments, autoInc, issued, now, req, last, started>>

(***************************************************************************)
(* bcrypt.                                                                 *)
(***************************************************************************)
bcryptHash(password) == <<"$2b$10$", password>>
\* a comparison that accepts every password
bcryptCompareAny(password, hash) == TRUE
bcryptCompare(password, hash) == hash = bcryptHash(password)

(***************************************************************************)
(* utils/jwt: a token carries the user identifier, the instant of issue    *)
(* and the key of its signature; a malformed token has the key "none".     *)
(***************************************************************************)
JWT_SECRET == "JWT_SECRET"
NullPayload == 0

generateToken(userId, t) == [userId |-> userId, iat |-> t, key |-> JWT_SECRET]

\* jwt.verify with ignoreExpiration
verifyTokenIgnoreExpiration(token, t) ==
  IF token.key = JWT_SECRET THEN token.userId ELSE NullPayload

verifyToken(token, t) ==
  IF token.key = JWT_SECRET /\ t < token.iat + TokenHours
    THEN token.userId
    ELSE NullPayload

(***************************************************************************)
(* middleware/auth: authenticateToken.  The result is the status of the    *)
(* rejection, or 0 when next() is called; AuthUser is req.user.id.         *)
(***************************************************************************)
NoHeader == [scheme |-> "none", token |-> [userId |-> 0, iat |-> 0, key |-> "none"]]

authenticateToken(authHeader, t) ==
  IF authHeader.scheme = "none" THEN 401
  ELSE IF authHeader.scheme # "Bearer" THEN 401
  ELSE IF verifyToken(authHeader.token, t) = NullPayload THEN 403
  ELSE 0

AuthUser(authHeader, t) == verifyToken(authHeader.token, t)

(***************************************************************************)
(* middleware/validation: validateId accepts /^\d+$/; Number() of an       *)
(* accepted parameter is its decimal value.                                *)
(***************************************************************************)
IsDigit(c) == \E i \in 1..Len(Digits) : Digits[i] = c
DigitValue(c) == (CHOOSE i \in 1..Len(Digits) : Digits[i] = c) - 1

validateId(param) ==
  IF Len(param) > 0 /\ \A i \in 1..Len(param) : IsDigit(param[i]) THEN 0 ELSE 400

RECURSIVE Number(_)
Number(param) ==
  IF Len(param) = 0 THEN 0
  ELSE 10 * Number(SubSeq(param, 1, Len(param) - 1)) + DigitValue(param[Len(param)])

(***************************************************************************)
(* middleware/validation: the zod schemas of the request bodies.  A        *)
(* required schema rejects an absent field, a partial schema accepts it.   *)
(***************************************************************************)
usernameOk(v) == v # Undefined /\ Len(v) >= UsernameMin
emailOk(v) == v # Undefined /\ v # BadEmail
textOk(v) == v # Undefined /\ Len(v) >= TextMin
idOk(v) == v > 0
optional(ok, absent) == absent \/ ok

requiredUserDataSchema(body) == usernameOk(body.username) /\ emailOk(body.email)
partialUserDataSchema(body) ==
  /\ optional(usernameOk(body.username), body.username = Undefined)
  /\ optional(emailOk(body.email), body.email = Undefined)
requiredCategoryDataSchema(body) == textOk(body.name) /\ textOk(body.description)
partialCategoryDataSchema(body) ==
  /\ optional(textOk(body.name), body.name = Undefined)
  /\ optional(textOk(body.description), body.description = Undefined)
requiredArticleDataSchema(body) ==
  textOk(body.title) /\ textOk(body.body) /\ idOk(body.category_id)
partialArticleDataSchema(body) ==
  /\ optional(textOk(body.title), body.title = Undefined)
  /\ optional(textOk(body.body), body.body = Undefined)
  /\ optional(idOk(body.category_id), body.category_id = NoId)
requiredCommentDataSchema(body) == textOk(body.content) /\ idOk(body.article_id)
partialCommentDataSchema(body) ==
  /\ optional(textOk(body.content), body.content = Undefined)
  /\ optional(idOk(body.article_id), body.article_id = NoId)
registrationSchema(body) ==
  usernameOk(body.username) /\ emailOk(body.email) /\ textOk(body.password)
loginSchema(body) == emailOk(body.email) /\ textOk(body.password)

validateData(op, body) ==
  LET ok ==
    CASE op = "POST /register" -> registrationSchema(body)
      [] op = "POST /login" -> loginSchema(body)
      [] op = "PUT /users/:id" -> requiredUserDataSchema(body)
      [] op = "PATCH /users/:id" -> partialUserDataSchema(body)
      [] op \in {"POST /categories", "PUT /categories/:id"} ->
           requiredCategoryDataSchema(body)
      [] op = "PATCH /categories/:id" -> partialCategoryDataSchema(body)
      [] op \in {"POST /articles", "PUT /articles/:id"} ->
           requiredArticleDataSchema(body)
      [] op = "PATCH /articles/:id" -> partialArticleDataSchema(body)
      [] op \in {"POST /comments", "PUT /comments/:id"} ->
           requiredCommentDataSchema(body)
      [] op = "PATCH /comments/:id" -> partialCommentDataSchema(body)
      [] OTHER -> TRUE
  IN IF ok THEN 0 ELSE 400

(***************************************************************************)
(* The middleware stack each route is registered with, in order.           *)
(***************************************************************************)
Stack(op) ==
  CASE op \in {"POST /register", "POST /login"} -> <<"validateData">>
    [] op \in {"GET /users", "GET /categories", "GET /articles", "GET /comments"} ->
         <<>>
    [] op \in {"GET /users/:id", "GET /categories/:id", "GET /articles/:id",
               "GET /comments/:id", "GET /users/:id/comments",
               "GET /users/:id/articles", "GET /categories/:id/articles",
               "GET /articles/:id/comments"} -> <<"validateId">>
    [] op \in {"PUT /users/:id", "PATCH /users/:id"} ->
         <<"validateId", "validateData", "authenticateToken">>
    [] op = "DELETE /users/:id" -> <<"validateId", "authenticateToken">>
    [] op \in {"POST /categories", "POST /articles", "POST /comments"} ->
         <<"authenticateToken", "validateData">>
    [] op \in {"PUT /categories/:id", "PATCH /categories/:id", "PUT /articles/:id",
               "PATCH /articles/:id", "PUT /comments/:id", "PATCH /comments/:id"} ->
         <<"authenticateToken", "validateId", "validateData">>
    [] op \in {"DELETE /categories/:id", "DELETE /articles/:id",
               "DELETE /comments/:id"} -> <<"authenticateToken", "validateId">>

\* a stack whose authenticateToken calls next() whatever the header
MiddlewareAuthSkipped(name, op, authHeader, param, body, t) ==
  CASE name = "authenticateToken" -> 0
    [] name = "validateId" -> validateId(param)
    [] name = "validateData" -> validateData(op, body)

Middleware(name, op, authHeader, param, body, t) ==
  CASE name = "authenticateToken" -> authenticateToken(authHeader, t)
    [] name = "validateId" -> validateId(param)
    [] name = "validateData" -> validateData(op, body)

\* the status sent by the first middleware of the stack that rejects the
\* request, or 0 when the handler is reached
Admit(op, authHeader, param, body, t) ==
  LET stack == Stack(op)
      rejecting == {i \in 1..Len(stack) :
                      Middleware(stack[i], op, authHeader, param, body, t) # 0}
  IN IF rejecting = {} THEN 0
     ELSE LET first == CHOOSE i \in rejecting : \A j \in rejecting : i <= j
          IN Middleware(stack[first], op, authHeader, param, body, t)

\* req.user.id once the handler is reached: set by authenticateToken when it
\* is on the stack
ReqUser(op, authHeader, t) ==
  IF \E i \in 1..Len(Stack(op)) : Stack(op)[i] = "authenticateToken"
    THEN AuthUser(authHeader, t)
    ELSE 0

HasParam(op) == \E i \in 1..Len(Stack(op)) : Stack(op)[i] = "validateId"

(***************************************************************************)
(* The MySQL schema: rows, AUTO_INCREMENT and the foreign keys.            *)
(***************************************************************************)
rows == <<users, categories, articles, comments>>

Put(table, id, row) == [i \in DOMAIN table \cup {id} |-> IF i = id THEN row ELSE table[i]]
Drop(table, ids) == [i \in DOMAIN table \ ids |-> table[i]]
Bump(counter, name) == [counter EXCEPT ![name] = @ + 1]

\* CONSTRAINT articles_ibfk_1 FOREIGN KEY (submitter_id) REFERENCES users (id)
articles_ibfk_1(row) == row.submitter_id \in DOMAIN users
\* the articles table without the constraint on category_id
articles_no_ibfk_2(row) == TRUE
\* CONSTRAINT articles_ibfk_2 FOREIGN KEY (category_id) REFERENCES categories (id)
articles_ibfk_2(row) == row.category_id \in DOMAIN categories
\* the comments table without the constraint on article_id
comments_no_ibfk_1(row) == TRUE
\* CONSTRAINT comments_ibfk_1 FOREIGN KEY (article_id) REFERENCES articles (id)
comments_ibfk_1(row) == row.article_id \in DOMAIN articles
\* CONSTRAINT comments_ibfk_2 FOREIGN KEY (user_id) REFERENCES users (id)
comments_ibfk_2(row) == row.user_id \in DOMAIN users

\* ON DELETE CASCADE: the rows that go with a deleted user or article
ArticlesOfUser(userId) == {a \in DOMAIN articles : articles[a].submitter_id = userId}
\* comments_ibfk_1 without ON DELETE CASCADE taking the comments along
CommentsOfArticlesNone(ids) == {}
CommentsOfArticles(ids) == {c \in DOMAIN comments : comments[c].article_id \in ids}
CommentsOfUser(userId) == {c \in DOMAIN comments : comments[c].user_id = userId}
\* categories deleted without regard to articles_ibfk_2
ArticlesOfCategoryNone(categoryId) == {}

\* no ON DELETE clause: a referenced category cannot be deleted
ArticlesOfCategory(categoryId) ==
  {a \in DOMAIN articles : articles[a].category_id = categoryId}

(***************************************************************************)
(* Requests and responses.  A request in flight keeps what its handler     *)
(* holds in local variables; authed, stmts, changed, owner and ref record  *)
(* what happened to it: whether authenticateToken accepted it, how many    *)
(* statements it issued, whether a statement of it changed a stored row,   *)
(* who owned the row it addresses when it arrived (0: no such row) and     *)
(* whether the row its body refers to existed when it was looked up.       *)
(***************************************************************************)
\* req.query of a request without query parameters
NoQuery == [page |-> <<>>, limit |-> <<>>, sort |-> Undefined]

NoRequest == [authHeader |-> NoHeader, param |-> <<>>, body |-> NoBody, query |-> NoQuery]

Idle ==
  [op |-> "idle", pc |-> "idle", request |-> NoRequest, user |-> 0, id |-> 0,
   body |-> NoBody, authed |-> FALSE, stmts |-> 0, changed |-> FALSE, owner |-> 0,
   ref |-> "none"]

NoJson == [none |-> TRUE]

NoResponse ==
  [op |-> "none", status |-> 0, request |-> NoRequest, user |-> 0, id |-> 0,
   authed |-> FALSE, stmts |-> 0, changed |-> FALSE, owner |-> 0, ref |-> "none",
   json |-> NoJson]

OnStack(op, name) == \E i \in 1..Len(Stack(op)) : Stack(op)[i] = name

\* the request as the handler sees it first
Fresh(op, x) ==
  [Idle EXCEPT !.op = op,
               !.pc = "handler",
               !.request = x,
               !.user = ReqUser(op, x.authHeader, now),
               !.id = IF OnStack(op, "validateId") THEN Number(x.param) ELSE 0,
               !.body = x.body,
               !.authed = /\ OnStack(op, "authenticateToken")
                          /\ authenticateToken(x.authHeader, now) = 0]

(***************************************************************************)
(* The requests a client sends.  A client holds the tokens issued so far   *)
(* and can make up a malformed token or one signed with another key.  A    *)
(* middleware reads one part of the request (the header, the parameter or  *)
(* the body), and the parts read after the first rejection are never       *)
(* looked at: of the requests a stack rejects, the ones that differ in     *)
(* such a part only are sent once.                                         *)
(***************************************************************************)
Headers ==
  {NoHeader,
   [scheme |-> "Basic", token |-> NoHeader.token],
   [scheme |-> "Bearer", token |-> [userId |-> 0, iat |-> 0, key |-> "none"]],
   [scheme |-> "Bearer", token |-> [userId |-> 1, iat |-> now, key |-> "forged"]]}
  \cup {[scheme |-> "Bearer", token |-> t] : t \in issued}

UserBodies ==
  [username : {"alice", Undefined, BadUsername}, email : {"a@ex.com", Undefined}]
CategoryBodies ==
  [name : {"n1", Undefined, BadText}, description : {"d1", Undefined}]
ArticleBodies ==
  [title : {"t1", Undefined, BadText}, body : {"b1", Undefined},
   category_id : {NoId, 2, 3}, submitter_id : {NoId, 2}]
CommentBodies ==
  [content : {"c1", Undefined, BadText}, article_id : {NoId, 1, 2}, user_id : {NoId, 1}]
RegisterBodies ==
  [username : Usernames \cup {BadUsername}, email : Emails \cup {BadEmail},
   password : {"pw1"}]
LoginBodies == [email : Emails \cup {BadEmail}, password : Passwords]

Part(name, op) ==
  CASE name = "authenticateToken" ->
         IF OnStack(op, name) THEN Headers ELSE {NoHeader, [scheme |-> "Basic", token |-> NoHeader.token]}
    [] name = "validateId" ->
         IF ~OnStack(op, name) THEN {<<>>}
         ELSE IF op \in ReadsOne THEN ReadIdParams
         ELSE IdParams
    [] name = "validateData" ->
         CASE op = "POST /register" -> RegisterBodies
           [] op = "POST /login" -> LoginBodies
           [] op \in {"PUT /users/:id", "PATCH /users/:id"} -> UserBodies
           [] op \in {"POST /categories", "PUT /categories/:id",
                      "PATCH /categories/:id"} -> CategoryBodies
           [] op \in {"POST /articles", "PUT /articles/:id", "PATCH /articles/:id"} ->
                ArticleBodies
           [] op \in {"POST /comments", "PUT /comments/:id", "PATCH /comments/:id"} ->
                CommentBodies
           [] OTHER -> {NoBody}

Passes(name, op, v) ==
  CASE name = "authenticateToken" -> authenticateToken(v, now) = 0
    [] name = "validateId" -> validateId(v) = 0
    [] name = "validateData" -> validateData(op, v) = 0

Position(op, name) ==
  IF OnStack(op, name) THEN CHOOSE i \in 1..Len(Stack(op)) : Stack(op)[i] = name ELSE 0

\* the values of one part in the requests that the k-th middleware of the
\* stack is the first to reject (k = 0: the requests no middleware rejects)
Values(name, op, k) ==
  LET all == Part(name, op)
      good == {v \in all : Passes(name, op, v)}
      at == Position(op, name)
  IN IF at = 0 THEN (IF k = 0 THEN all ELSE {CHOOSE v \in all : TRUE})
     ELSE IF k = 0 THEN good
     ELSE IF at = k THEN all \ good
     ELSE IF at < k THEN (IF good = {} THEN {} ELSE {CHOOSE v \in good : TRUE})
     ELSE {CHOOSE v \in all : TRUE}

\* req.query: GET /users reads page and limit; the handlers of the other lists
\* read no query parameter, whatever the client sends
ListQueries ==
  {NoQuery, [NoQuery EXCEPT !.limit = <<"1">>],
   [NoQuery EXCEPT !.page = <<"2">>, !.limit = <<"1">>]}

\* GET /articles?sort=category, GET /articles?sort=author
SortQueries == {[NoQuery EXCEPT !.sort = by] : by \in {"category", "author"}}

Queries(op) ==
  IF op = "GET /users" THEN [page : QueryParams, limit : QueryParams, sort : {Undefined}]
  ELSE IF op = "GET /articles" THEN ListQueries \cup SortQueries
  ELSE IF op \in {"GET /categories", "GET /comments"} THEN ListQueries
  ELSE {NoQuery}

Requests(op) ==
  UNION {[authHeader : Values("authenticateToken", op, k),
          param : Values("validateId", op, k),
          body : Values("validateData", op, k),
          query : Queries(op)] : k \in 0..Len(Stack(op))}

\* a request is taken by the first free slot: the slots are interchangeable
Arrives(r) ==
  /\ req[r].pc = "idle"
  /\ \A o \in Slots : o < r => req[o].pc # "idle"
  /\ started < MaxRequests
  /\ started' = started + 1

Resumes(r, op, pc) ==
  /\ req[r].op = op
  /\ req[r].pc = pc
  /\ UNCHANGED started

\* one more statement issued by request q
Stmt(q) == [q EXCEPT !.stmts = @ + 1]

Response(q, status, json) ==
  [op |-> q.op, status |-> status, request |-> q.request, user |-> q.user,
   id |-> q.id, authed |-> q.authed, stmts |-> q.stmts, changed |-> q.changed \/ rows' # rows,
   owner |-> q.owner, ref |-> q.ref, json |-> json]

\* an answer after which the handler is still running
RespondAndGoOn(r, q, status, json) ==
  /\ UNCHANGED req
  /\ last' = Response(q, status, json)

Respond(r, q, status, json) ==
  /\ req' = [req EXCEPT ![r] = Idle]
  /\ last' = Response(q, status, json)

\* a middleware of the stack answers: the handler is not reached
Reject(r, op, x, status) ==
  /\ UNCHANGED <<users, categories, articles, comments, autoInc, issued>>
  /\ req' = [req EXCEPT ![r] = Idle]
  /\ last' = [NoResponse EXCEPT !.op = op, !.status = status, !.request = x,
                                !.changed = rows' # rows]

Continue(r, q, pc) ==
  /\ req' = [req EXCEPT ![r] = [q EXCEPT !.pc = pc, !.changed = @ \/ rows' # rows]]
  /\ UNCHANGED last

\* the errors pool.execute throws in the handlers: err.message is the text of
\* the storage engine
ER_BAD_FIELD_ERROR == [message |-> "Unknown column 'user_id' in 'field list'"]
ER_PARSE_ERROR == [message |-> "You have an error in your SQL syntax"]
ER_ROW_IS_REFERENCED_2 ==
  [message |-> "Cannot delete or update a parent row: a foreign key constraint fails"]
ER_WRONG_ARGUMENTS == [message |-> "Incorrect arguments to mysqld_stmt_execute"]
ER_NO_REFERENCED_ROW_2 ==
  [message |-> "Cannot add or update a child row: a foreign key constraint fails"]

\* errorHandler: next(error) with an error thrown by pool.execute
errorHandler(r, q, err) ==
  Respond(r, q, IF "status" \in DOMAIN err THEN err.status ELSE 500,
          [error |-> IF err.message = "" THEN "Internal server error" ELSE err.message])

(***************************************************************************)
(* The database with two users registered through POST /register (their   *)
(* passwords are bcrypt hashes) who have both logged in, two categories,   *)
(* one article and one comment.                                            *)
(***************************************************************************)
Init ==
  /\ users = (1 :> [username |-> "alice", email |-> "a@ex.com", password |-> bcryptHash("pw1")]
              @@ 2 :> [username |-> "ben", email |-> "b@ex.com", password |-> bcryptHash("pw1")])
  /\ categories = (1 :> [name |-> "Climate", description |-> "d0"]
                   @@ 2 :> [name |-> "Aid", description |-> "d0"])
  /\ articles = (1 :> [title |-> "t0", body |-> "b0", category_id |-> 1, submitter_id |-> 1])
  /\ comments = (1 :> [content |-> "c0", article_id |-> 1, user_id |-> 2])
  /\ autoInc = [users |-> 3, categories |-> 3, articles |-> 2, comments |-> 2]
  /\ issued = {generateToken(1, 0), generateToken(2, 0)}
  /\ now = 0
  /\ req = [r \in Slots |-> Idle]
  /\ last = NoResponse
  /\ started = 0

(***************************************************************************)
(* routes/register: POST /register.                                        *)
(***************************************************************************)
\* the lookup with AND in place of OR
existingUsersBoth(email, username) ==
  {u \in DOMAIN users : users[u].email = email /\ users[u].username = username}

\* SELECT * FROM users WHERE email = ? OR username = ?
existingUsers(email, username) ==
  {u \in DOMAIN users : users[u].email = email \/ users[u].username = username}

Register(r) ==
  /\ Arrives(r)
  /\ \E x \in Requests("POST /register") :
       LET op == "POST /register"
           st == Admit(op, x.authHeader, x.param, x.body, now)
           q == Stmt(Fresh(op, x))
       IN /\ UNCHANGED now
          /\ IF st # 0 THEN Reject(r, op, x, st)
             ELSE /\ UNCHANGED <<users, categories, articles, comments, autoInc, issued>>
                  /\ IF existingUsers(x.body.email, x.body.username) # {}
                       THEN Respond(r, q, 400,
                                    [error |-> "User with this email or username already exists"])
                       ELSE Continue(r, q, "insert")

\* INSERT INTO users (username, email, password) VALUES (?, ?, ?)
RegisterInsert(r) ==
  LET q == Stmt(req[r])
      insertId == autoInc.users
  IN /\ Resumes(r, "POST /register", "insert")
     /\ users' = Put(users, insertId,
                     [username |-> q.body.username, email |-> q.body.email,
                      password |-> bcryptHash(q.body.password)])
     /\ autoInc' = Bump(autoInc, "users")
     /\ UNCHANGED <<categories, articles, comments, issued, now>>
     /\ Respond(r, [q EXCEPT !.id = insertId], 201,
                [id |-> insertId, username |-> q.body.username, email |-> q.body.email])

(***************************************************************************)
(* routes/login: POST /login.                                              *)
(***************************************************************************)
\* SELECT id, username, email, password FROM users WHERE email = ?
usersByEmail(email) == {u \in DOMAIN users : users[u].email = email}

Login(r) ==
  /\ Arrives(r)
  /\ \E x \in Requests("POST /login") :
       LET op == "POST /login"
           st == Admit(op, x.authHeader, x.param, x.body, now)
           q == Stmt(Fresh(op, x))
           found == usersByEmail(x.body.email)
       IN /\ UNCHANGED now
          /\ IF st # 0 THEN Reject(r, op, x, st)
             ELSE /\ UNCHANGED <<users, categories, articles, comments, autoInc>>
                  /\ IF found = {}
                       THEN /\ Respond(r, q, 401, [error |-> "Invalid email or password"])
                            /\ UNCHANGED issued
                       ELSE \E id \in found :
                              \* users[0] of the rows: no ORDER BY, the storage decides
                              IF ~bcryptCompare(x.body.password, users[id].password)
                                THEN /\ Respond(r, q, 401,
                                                [error |-> "Invalid email or password"])
                                     /\ UNCHANGED issued
                                ELSE /\ issued' = issued \cup {generateToken(id, now)}
                                     /\ Respond(r, [q EXCEPT !.id = id], 200,
                                                [id |-> id,
                                                 username |-> users[id].username,
                                                 email |-> users[id].email,
                                                 token |-> generateToken(id, now)])

(***************************************************************************)
(* utils/pagination: getPagination.  A query parameter is given as the     *)
(* value of Number(req.query.x); NaN and 0 are both falsy.                 *)
(***************************************************************************)
NaN == 0

\* Number(req.query.x): the decimal value of a signed digit sequence, NaN for
\* a parameter that is not given or is no number
NumberOfQuery(s) ==
  IF validateId(s) = 0 THEN Number(s)
  ELSE IF Len(s) > 1 /\ s[1] = "-" /\ validateId(Tail(s)) = 0 THEN 0 - Number(Tail(s))
  ELSE NaN

getPagination(queryPage, queryLimit) ==
  LET page == IF queryPage # 0 THEN queryPage ELSE 1
      limit == IF queryLimit # 0 THEN queryLimit ELSE 10
  IN [page |-> page, limit |-> limit, offset |-> (page - 1) * limit]

\* the identifiers of a table in ascending order
RECURSIVE Ascending(_)
Ascending(ids) ==
  IF ids = {} THEN <<>>
  ELSE LET least == CHOOSE i \in ids : \A j \in ids : i <= j
       IN <<least>> \o Ascending(ids \ {least})

\* ORDER BY id ASC LIMIT ? OFFSET ?
LimitOffset(ids, limit, offset) ==
  LET all == Ascending(ids)
  IN SubSeq(all, offset + 1, IF offset + limit < Len(all) THEN offset + limit ELSE Len(all))

(***************************************************************************)
(* routes/users.                                                           *)
(***************************************************************************)
\* SELECT * FROM users: the row with its password column
UserJsonAllColumns(id) == [id |-> id] @@ users[id]
UserJson(id) == [id |-> id, username |-> users[id].username, email |-> users[id].email]

UserOwner(id) == IF id \in DOMAIN users THEN id ELSE 0

\* GET /users: SELECT id, username, email FROM users ORDER BY id ASC LIMIT ? OFFSET ?
GetUsers(r) ==
  /\ Arrives(r)
  /\ \E x \in Requests("GET /users") :
       LET op == "GET /users"
           q == Stmt(Fresh(op, x))
           p == getPagination(NumberOfQuery(x.query.page), NumberOfQuery(x.query.limit))
           page == LimitOffset(DOMAIN users, p.limit, p.offset)
       IN /\ UNCHANGED <<users, categories, articles, comments, autoInc, issued, now>>
          /\ IF p.limit < 0 \/ p.offset < 0
               \* LIMIT and OFFSET take no negative value: the statement fails
               THEN errorHandler(r, q, ER_WRONG_ARGUMENTS)
               ELSE Respond(r, q, 200, [i \in 1..Len(page) |-> UserJson(page[i])])

\* GET /users/:id: SELECT id, username, email FROM users WHERE id = ?
GetUser(r) ==
  /\ Arrives(r)
  /\ \E x \in Requests("GET /users/:id") :
       LET op == "GET /users/:id"
           st == Admit(op, x.authHeader, x.param, x.body, now)
           q == Stmt(Fresh(op, x))
       IN /\ UNCHANGED now
          /\ IF st # 0 THEN Reject(r, op, x, st)
             ELSE /\ UNCHANGED <<users, categories, articles, comments, autoInc, issued>>
                  /\ IF q.id \notin DOMAIN users
                       THEN Respond(r, q, 404, [message |-> "User not found"])
                       ELSE Respond(r, q, 200, UserJson(q.id))

\* GET /users/:id/comments: SELECT id, content, article_id, user_id FROM comments
\* WHERE user_id = ?
GetUserComments(r) ==
  /\ Arrives(r)
  /\ \E x \in Requests("GET /users/:id/comments") :
       LET op == "GET /users/:id/comments"
           st == Admit(op, x.authHeader, x.param, x.body, now)
           q == Stmt(Fresh(op, x))
       IN /\ UNCHANGED now
          /\ IF st # 0 THEN Reject(r, op, x, st)
             ELSE /\ UNCHANGED <<users, categories, articles, comments, autoInc, issued>>
                  /\ Respond(r, q, 200,
                             {[id |-> c, content |-> comments[c].content,
                               article_id |-> comments[c].article_id,
                               user_id |-> comments[c].user_id] : c \in CommentsOfUser(q.id)})

\* GET /users/:id/articles: SELECT id, title, body, category_id, user_id FROM
\* articles WHERE user_id = ?  The table articles has no column user_id: the
\* statement fails.
GetUserArticles(r) ==
  /\ Arrives(r)
  /\ \E x \in Requests("GET /users/:id/articles") :
       LET op == "GET /users/:id/articles"
           st == Admit(op, x.authHeader, x.param, x.body, now)
           q == Stmt(Fresh(op, x))
       IN /\ UNCHANGED now
          /\ IF st # 0 THEN Reject(r, op, x, st)
             ELSE /\ UNCHANGED <<users, categories, articles, comments, autoInc, issued>>
                  /\ errorHandler(r, q, ER_BAD_FIELD_ERROR)

\* the guard clause of the handlers of PUT, PATCH and DELETE /users/:id
\* the guard clause without the comparison with :id
NotOwnUserAnyCaller(q) == q.user = 0
NotOwnUser(q) == q.user # q.id

\* PUT /users/:id: UPDATE users SET username = ?, email = ? WHERE id = ?
PutUser(r) ==
  /\ Arrives(r)
  /\ \E x \in Requests("PUT /users/:id") :
       LET op == "PUT /users/:id"
           st == Admit(op, x.authHeader, x.param, x.body, now)
           q0 == [Fresh(op, x) EXCEPT !.owner = UserOwner(Number(x.param))]
           q == Stmt(q0)
       IN /\ UNCHANGED now
          /\ IF st # 0 THEN Reject(r, op, x, st)
             ELSE IF NotOwnUser(q0)
               THEN /\ UNCHANGED <<users, categories, articles, comments, autoInc, issued>>
                    /\ Respond(r, q0, 403, [message |-> "You can only edit your own user"])
             ELSE /\ UNCHANGED <<categories, articles, comments, autoInc, issued>>
                  /\ IF q.id \in DOMAIN users
                       THEN /\ users' = [users EXCEPT ![q.id].username = q.body.username,
                                                      ![q.id].email = q.body.email]
                            /\ Respond(r, q, 200,
                                       [id |-> q.id, username |-> q.body.username,
                                        email |-> q.body.email])
                       ELSE /\ UNCHANGED users
                            /\ Respond(r, q, 404, [message |-> "User not found"])

\* PATCH /users/:id: UPDATE users SET <fields> WHERE id = ?
PatchUser(r) ==
  /\ Arrives(r)
  /\ \E x \in Requests("PATCH /users/:id") :
       LET op == "PATCH /users/:id"
           st == Admit(op, x.authHeader, x.param, x.body, now)
           q0 == [Fresh(op, x) EXCEPT !.owner = UserOwner(Number(x.param))]
           q == Stmt(q0)
           fields == {f \in {"username", "email"} : q.body[f] # Undefined}
       IN /\ UNCHANGED now
          /\ IF st # 0 THEN Reject(r, op, x, st)
             ELSE IF NotOwnUser(q0)
               THEN /\ UNCHANGED <<users, categories, articles, comments, autoInc, issued>>
                    /\ Respond(r, q0, 403, [message |-> "You can only edit your own user"])
             ELSE IF fields = {}
               \* UPDATE users SET  WHERE id = ?: the statement does not parse
               THEN /\ UNCHANGED <<users, categories, articles, comments, autoInc, issued>>
                    /\ errorHandler(r, q, ER_PARSE_ERROR)
             ELSE /\ UNCHANGED <<categories, articles, comments, autoInc, issued>>
                  /\ IF q.id \in DOMAIN users
                       THEN /\ users' = [users EXCEPT ![q.id] =
                                           [f \in DOMAIN @ |->
                                              IF f \in fields THEN q.body[f] ELSE @[f]]]
                            /\ Continue(r, q, "select")
                       ELSE /\ UNCHANGED users
                            /\ Respond(r, q, 404, [message |-> "User not found"])

\* PATCH /users/:id: SELECT id, username, email FROM users WHERE id = ?
PatchUserSelect(r) ==
  LET q == Stmt(req[r])
  IN /\ Resumes(r, "PATCH /users/:id", "select")
     /\ UNCHANGED <<users, categories, articles, comments, autoInc, issued, now>>
     /\ Respond(r, q, 200, IF q.id \in DOMAIN users THEN UserJson(q.id) ELSE NoJson)

\* DELETE /users/:id: DELETE FROM users WHERE id = ?
DeleteUser(r) ==
  /\ Arrives(r)
  /\ \E x \in Requests("DELETE /users/:id") :
       LET op == "DELETE /users/:id"
           st == Admit(op, x.authHeader, x.param, x.body, now)
           q0 == [Fresh(op, x) EXCEPT !.owner = UserOwner(Number(x.param))]
           q == Stmt(q0)
           gone == ArticlesOfUser(q.id)
       IN /\ UNCHANGED now
          /\ IF st # 0 THEN Reject(r, op, x, st)
             ELSE IF NotOwnUser(q0)
               THEN /\ UNCHANGED <<users, categories, articles, comments, autoInc, issued>>
                    /\ Respond(r, q0, 403, [message |-> "You can only delete your own user"])
             ELSE /\ UNCHANGED <<categories, autoInc, issued>>
                  /\ IF q.id \in DOMAIN users
                       THEN /\ users' = Drop(users, {q.id})
                            /\ articles' = Drop(articles, gone)
                            /\ comments' = Drop(comments,
                                                CommentsOfUser(q.id) \cup CommentsOfArticles(gone))
                            /\ Respond(r, q, 204, NoJson)
                       ELSE /\ UNCHANGED <<users, articles, comments>>
                            /\ Respond(r, q, 404, [message |-> "User not found"])

(***************************************************************************)
(* routes/categories.                                                      *)
(***************************************************************************)
CategoryJson(id) ==
  [id |-> id, name |-> categories[id].name, description |-> categories[id].description]

\* GET /categories: SELECT id, name, description FROM categories
GetCategories(r) ==
  /\ Arrives(r)
  /\ \E x \in Requests("GET /categories") :
       LET op == "GET /categories"
           q == Stmt(Fresh(op, x))
       IN /\ UNCHANGED <<users, categories, articles, comments, autoInc, issued, now>>
          /\ Respond(r, q, 200, {CategoryJson(c) : c \in DOMAIN categories})

\* GET /categories/:id: SELECT id, name, description FROM categories WHERE id = ?
GetCategory(r) ==
  /\ Arrives(r)
  /\ \E x \in Requests("GET /categories/:id") :
       LET op == "GET /categories/:id"
           st == Admit(op, x.authHeader, x.param, x.body, now)
           q == Stmt(Fresh(op, x))
       IN /\ UNCHANGED now
          /\ IF st # 0 THEN Reject(r, op, x, st)
             ELSE /\ UNCHANGED <<users, categories, articles, comments, autoInc, issued>>
                  /\ IF q.id \notin DOMAIN categories
                       THEN Respond(r, q, 404, [error |-> "Category not found"])
                       ELSE Respond(r, q, 200, CategoryJson(q.id))

\* GET /categories/:id/articles: SELECT articles.id, ..., articles.user_id, ...
\* FROM articles WHERE articles.category_id = ?  The table articles has no
\* column user_id: the statement fails.
GetCategoryArticles(r) ==
  /\ Arrives(r)
  /\ \E x \in Requests("GET /categories/:id/articles") :
       LET op == "GET /categories/:id/articles"
           st == Admit(op, x.authHeader, x.param, x.body, now)
           q == Stmt(Fresh(op, x))
       IN /\ UNCHANGED now
          /\ IF st # 0 THEN Reject(r, op, x, st)
             ELSE /\ UNCHANGED <<users, categories, articles, comments, autoInc, issued>>
                  /\ errorHandler(r, q, ER_BAD_FIELD_ERROR)

\* POST /categories: INSERT INTO categories (name, description) VALUES (?, ?)
PostCategory(r) ==
  /\ Arrives(r)
  /\ \E x \in Requests("POST /categories") :
       LET op == "POST /categories"
           st == Admit(op, x.authHeader, x.param, x.body, now)
           insertId == autoInc.categories
           q == [Stmt(Fresh(op, x)) EXCEPT !.id = insertId]
       IN /\ UNCHANGED now
          /\ IF st # 0 THEN Reject(r, op, x, st)
             ELSE /\ categories' = Put(categories, insertId,
                                       [name |-> q.body.name,
                                        description |-> q.body.description])
                  /\ autoInc' = Bump(autoInc, "categories")
                  /\ UNCHANGED <<users, articles, comments, issued>>
                  /\ Respond(r, q, 201,
                             [id |-> insertId, name |-> q.body.name,
                              description |-> q.body.description])

\* PUT /categories/:id: UPDATE categories SET name = ?, description = ? WHERE id = ?
PutCategory(r) ==
  /\ Arrives(r)
  /\ \E x \in Requests("PUT /categories/:id") :
       LET op == "PUT /categories/:id"
           st == Admit(op, x.authHeader, x.param, x.body, now)
           q == Stmt(Fresh(op, x))
       IN /\ UNCHANGED now
          /\ IF st # 0 THEN Reject(r, op, x, st)
             ELSE /\ UNCHANGED <<users, articles, comments, autoInc, issued>>
                  /\ IF q.id \in DOMAIN categories
                       THEN /\ categories' =
                                 [categories EXCEPT ![q.id].name = q.body.name,
                                                    ![q.id].description = q.body.description]
                            /\ Respond(r, q, 200,
                                       [id |-> q.id, name |-> q.body.name,
                                        description |-> q.body.description])
                       ELSE /\ UNCHANGED categories
                            /\ Respond(r, q, 404, [error |-> "Category not found"])

\* PATCH /categories/:id: UPDATE categories SET <fieldsToUpdate> WHERE id = ?
PatchCategory(r) ==
  /\ Arrives(r)
  /\ \E x \in Requests("PATCH /categories/:id") :
       LET op == "PATCH /categories/:id"
           st == Admit(op, x.authHeader, x.param, x.body, now)
           q == Stmt(Fresh(op, x))
           fieldsToUpdate == {f \in {"name", "description"} : q.body[f] # Undefined}
       IN /\ UNCHANGED now
          /\ IF st # 0 THEN Reject(r, op, x, st)
             ELSE IF fieldsToUpdate = {}
               \* UPDATE categories SET  WHERE id = ?: the statement does not parse
               THEN /\ UNCHANGED <<users, categories, articles, comments, autoInc, issued>>
                    /\ errorHandler(r, q, ER_PARSE_ERROR)
             ELSE /\ UNCHANGED <<users, articles, comments, autoInc, issued>>
                  /\ IF q.id \in DOMAIN categories
                       THEN /\ categories' =
                                 [categories EXCEPT ![q.id] =
                                    [f \in DOMAIN @ |->
                                       IF f \in fieldsToUpdate THEN q.body[f] ELSE @[f]]]
                            /\ Continue(r, q, "select")
                       ELSE /\ UNCHANGED categories
                            /\ Respond(r, q, 404, [error |-> "Category not found"])

\* PATCH /categories/:id: SELECT id, name, description FROM categories WHERE id = ?
PatchCategorySelect(r) ==
  LET q == Stmt(req[r])
  IN /\ Resumes(r, "PATCH /categories/:id", "select")
     /\ UNCHANGED <<users, categories, articles, comments, autoInc, issued, now>>
     /\ Respond(r, q, 200,
                IF q.id \in DOMAIN categories THEN CategoryJson(q.id) ELSE NoJson)

\* DELETE /categories/:id: DELETE FROM categories WHERE id = ?
DeleteCategory(r) ==
  /\ Arrives(r)
  /\ \E x \in Requests("DELETE /categories/:id") :
       LET op == "DELETE /categories/:id"
           st == Admit(op, x.authHeader, x.param, x.body, now)
           q == Stmt(Fresh(op, x))
       IN /\ UNCHANGED now
          /\ IF st # 0 THEN Reject(r, op, x, st)
             ELSE /\ UNCHANGED <<users, articles, comments, autoInc, issued>>
                  /\ IF q.id \notin DOMAIN categories
                       THEN /\ UNCHANGED categories
                            /\ Respond(r, q, 404, [error |-> "Category not found"])
                     ELSE IF ArticlesOfCategory(q.id) # {}
                       \* articles_ibfk_2 forbids the delete
                       THEN /\ UNCHANGED categories
                            /\ errorHandler(r, q, ER_ROW_IS_REFERENCED_2)
                     ELSE /\ categories' = Drop(categories, {q.id})
                          /\ Respond(r, q, 204, NoJson)

(***************************************************************************)
(* routes/articles.                                                        *)
(***************************************************************************)
ArticleOwner(id) == IF id \in DOMAIN articles THEN articles[id].submitter_id ELSE 0

\* SELECT id FROM categories WHERE id = ?
\* the lookup without its WHERE clause
categoryRowsAll(category_id) == DOMAIN categories
categoryRows(category_id) == {c \in DOMAIN categories : c = category_id}

Found(exists) == IF exists THEN "found" ELSE "missing"

ArticleRow(id) ==
  [id |-> id, title |-> articles[id].title, body |-> articles[id].body,
   category_id |-> articles[id].category_id, submitter_id |-> articles[id].submitter_id]

\* SELECT ... FROM articles INNER JOIN categories ... INNER JOIN users ...
ArticleWithNames(id) ==
  [id |-> id, title |-> articles[id].title, body |-> articles[id].body,
   category_id |-> articles[id].category_id,
   category_name |-> categories[articles[id].category_id].name,
   submitter_id |-> articles[id].submitter_id,
   submitter_name |-> users[articles[id].submitter_id].username]

Joined ==
  {a \in DOMAIN articles : /\ articles[a].category_id \in DOMAIN categories
                           /\ articles[a].submitter_id \in DOMAIN users}

\* SELECT ... FROM comments INNER JOIN users ON comments.user_id = users.id
CommentWithName(id) ==
  [id |-> id, content |-> comments[id].content, article_id |-> comments[id].article_id,
   user_id |-> comments[id].user_id, user_name |-> users[comments[id].user_id].username]

JoinedComments == {c \in DOMAIN comments : comments[c].user_id \in DOMAIN users}

\* the orders in which a SELECT without ORDER BY can yield the rows ids
Orders(ids) ==
  {order \in [1..Cardinality(ids) -> ids] :
     \A i, j \in DOMAIN order : order[i] = order[j] => i = j}

\* GET /articles: the rows of the join, in the order the storage engine yields
\* them
GetArticles(r) ==
  /\ Arrives(r)
  /\ \E x \in Requests("GET /articles"), order \in Orders(Joined) :
       LET op == "GET /articles"
           q == Stmt(Fresh(op, x))
       IN /\ UNCHANGED <<users, categories, articles, comments, autoInc, issued, now>>
          /\ Respond(r, q, 200, [i \in DOMAIN order |-> ArticleWithNames(order[i])])

\* GET /articles/:id
GetArticle(r) ==
  /\ Arrives(r)
  /\ \E x \in Requests("GET /articles/:id") :
       LET op == "GET /articles/:id"
           st == Admit(op, x.authHeader, x.param, x.body, now)
           q == Stmt(Fresh(op, x))
       IN /\ UNCHANGED now
          /\ IF st # 0 THEN Reject(r, op, x, st)
             ELSE /\ UNCHANGED <<users, categories, articles, comments, autoInc, issued>>
                  /\ IF q.id \notin Joined
                       THEN Respond(r, q, 404, [error |-> "Article not found"])
                       ELSE Respond(r, q, 200, ArticleWithNames(q.id))

\* GET /articles/:id/comments
GetArticleComments(r) ==
  /\ Arrives(r)
  /\ \E x \in Requests("GET /articles/:id/comments") :
       LET op == "GET /articles/:id/comments"
           st == Admit(op, x.authHeader, x.param, x.body, now)
           q == Stmt(Fresh(op, x))
       IN /\ UNCHANGED now
          /\ IF st # 0 THEN Reject(r, op, x, st)
             ELSE /\ UNCHANGED <<users, categories, articles, comments, autoInc, issued>>
                  /\ Respond(r, q, 200,
                             {CommentWithName(c) :
                                c \in {d \in JoinedComments : comments[d].article_id = q.id}})

\* POST /articles: SELECT id FROM categories WHERE id = ?
PostArticle(r) ==
  /\ Arrives(r)
  /\ \E x \in Requests("POST /articles") :
       LET op == "POST /articles"
           st == Admit(op, x.authHeader, x.param, x.body, now)
           q0 == Fresh(op, x)
           found == categoryRows(q0.body.category_id)
           q == Stmt([q0 EXCEPT !.ref = Found(q0.body.category_id \in DOMAIN categories)])
       IN /\ UNCHANGED now
          /\ IF st # 0 THEN Reject(r, op, x, st)
             ELSE /\ UNCHANGED <<users, categories, articles, comments, autoInc, issued>>
                  /\ IF found = {}
                       THEN Respond(r, q, 404, [message |-> "Category not found"])
                       ELSE Continue(r, q, "insert")

\* the owner reference read from the body when the body has one
SubmitterFromBody(q) ==
  IF q.body.submitter_id # NoId THEN q.body.submitter_id ELSE q.user

\* the owner reference a new row gets: req.user.id
Submitter(q) == q.user

\* POST /articles: INSERT INTO articles (title, body, category_id, submitter_id)
\* VALUES (?, ?, ?, ?)
PostArticleInsert(r) ==
  LET insertId == autoInc.articles
      q == [Stmt(req[r]) EXCEPT !.id = insertId]
      row == [title |-> q.body.title, body |-> q.body.body,
              category_id |-> q.body.category_id, submitter_id |-> Submitter(q)]
  IN /\ Resumes(r, "POST /articles", "insert")
     /\ autoInc' = Bump(autoInc, "articles")
     /\ UNCHANGED <<users, categories, comments, issued, now>>
     /\ IF articles_ibfk_1(row) /\ articles_ibfk_2(row)
          THEN /\ articles' = Put(articles, insertId, row)
               /\ Respond(r, q, 201, row @@ [id |-> insertId])
          ELSE /\ UNCHANGED articles
               /\ errorHandler(r, q, ER_NO_REFERENCED_ROW_2)

\* PUT /articles/:id: SELECT id FROM categories WHERE id = ?
PutArticle(r) ==
  /\ Arrives(r)
  /\ \E x \in Requests("PUT /articles/:id") :
       LET op == "PUT /articles/:id"
           st == Admit(op, x.authHeader, x.param, x.body, now)
           q0 == Fresh(op, x)
           found == categoryRows(q0.body.category_id)
           q == Stmt([q0 EXCEPT !.owner = ArticleOwner(q0.id),
                                !.ref = Found(q0.body.category_id \in DOMAIN categories)])
       IN /\ UNCHANGED now
          /\ IF st # 0 THEN Reject(r, op, x, st)
             ELSE /\ UNCHANGED <<users, categories, articles, comments, autoInc, issued>>
                  /\ IF found = {}
                       THEN Respond(r, q, 404, [message |-> "Category not found"])
                       ELSE Continue(r, q, "update")

\* the WHERE clause without the owner
OwnArticleAnyCaller(q) == q.id \in DOMAIN articles

\* WHERE id = ? AND submitter_id = ?
OwnArticle(q) == q.id \in DOMAIN articles /\ articles[q.id].submitter_id = q.user

\* PUT /articles/:id: UPDATE articles SET title = ?, body = ?, category_id = ?
\* WHERE id = ? AND submitter_id = ?
PutArticleUpdate(r) ==
  LET q == Stmt(req[r])
      row == [title |-> q.body.title, body |-> q.body.body,
              category_id |-> q.body.category_id, submitter_id |-> q.user]
  IN /\ Resumes(r, "PUT /articles/:id", "update")
     /\ UNCHANGED <<users, categories, comments, autoInc, issued, now>>
     /\ IF ~OwnArticle(q)
          THEN /\ UNCHANGED articles
               /\ Respond(r, q, 403, [message |-> "You can only edit your own articles"])
        ELSE IF ~articles_ibfk_2(row)
          THEN /\ UNCHANGED articles
               /\ errorHandler(r, q, ER_NO_REFERENCED_ROW_2)
        ELSE /\ articles' = [articles EXCEPT ![q.id].title = row.title,
                                             ![q.id].body = row.body,
                                             ![q.id].category_id = row.category_id]
             /\ Respond(r, q, 201, row @@ [id |-> q.id])

\* the UPDATE with every column of the payload, given or not
PatchArticleWriteEveryColumn(r, q) ==
  /\ UNCHANGED <<users, categories, comments, autoInc, issued, now>>
  /\ IF ~OwnArticle(q)
       THEN /\ UNCHANGED articles
            /\ Respond(r, q, 403, [message |-> "You can only edit your own articles"])
       ELSE /\ articles' = [articles EXCEPT ![q.id].title = q.body.title,
                                            ![q.id].body = q.body.body]
            /\ Continue(r, q, "select")

\* PATCH /articles/:id: UPDATE articles SET <fieldsToUpdate> WHERE id = ? AND
\* submitter_id = ?
PatchArticleWrite(r, q) ==
  LET fieldsToUpdate ==
        {f \in {"title", "body"} : q.body[f] # Undefined}
          \cup (IF q.body.category_id # NoId THEN {"category_id"} ELSE {})
      row == IF q.id \in DOMAIN articles
               THEN [f \in DOMAIN articles[q.id] |->
                       IF f \in fieldsToUpdate THEN q.body[f] ELSE articles[q.id][f]]
               ELSE NoJson
  IN /\ UNCHANGED <<users, categories, comments, autoInc, issued, now>>
     /\ IF fieldsToUpdate = {}
          \* UPDATE articles SET  WHERE ...: the statement does not parse
          THEN /\ UNCHANGED articles
               /\ errorHandler(r, q, ER_PARSE_ERROR)
        ELSE IF ~OwnArticle(q)
          THEN /\ UNCHANGED articles
               /\ Respond(r, q, 403, [message |-> "You can only edit your own articles"])
        ELSE IF ~articles_ibfk_2(row)
          THEN /\ UNCHANGED articles
               /\ errorHandler(r, q, ER_NO_REFERENCED_ROW_2)
        ELSE /\ articles' = [articles EXCEPT ![q.id] = row]
             /\ Continue(r, q, "select")

\* the test with every payload taken to have a category_id
HasCategoryIdAlways(body) == TRUE
\* category_id !== undefined
HasCategoryId(body) == body.category_id # NoId

\* PATCH /articles/:id: SELECT id FROM categories WHERE id = ?, when the body has
\* a category_id; the UPDATE is the first statement otherwise
PatchArticle(r) ==
  /\ Arrives(r)
  /\ \E x \in Requests("PATCH /articles/:id") :
       LET op == "PATCH /articles/:id"
           st == Admit(op, x.authHeader, x.param, x.body, now)
           q0 == [Fresh(op, x) EXCEPT !.owner = ArticleOwner(Number(x.param))]
           found == categoryRows(q0.body.category_id)
           q == Stmt([q0 EXCEPT !.ref = Found(q0.body.category_id \in DOMAIN categories)])
       IN /\ IF st # 0 THEN Reject(r, op, x, st) /\ UNCHANGED now
             ELSE IF HasCategoryId(q0.body)
               THEN /\ UNCHANGED <<users, categories, articles, comments, autoInc, issued, now>>
                    /\ IF found = {}
                         THEN Respond(r, q, 404, [message |-> "Category not found"])
                         ELSE Continue(r, q, "update")
             ELSE PatchArticleWrite(r, Stmt(q0))

PatchArticleUpdate(r) ==
  /\ Resumes(r, "PATCH /articles/:id", "update")
  /\ PatchArticleWrite(r, Stmt(req[r]))

\* PATCH /articles/:id: SELECT * FROM articles WHERE id = ?
PatchArticleSelect(r) ==
  LET q == Stmt(req[r])
  IN /\ Resumes(r, "PATCH /articles/:id", "select")
     /\ UNCHANGED <<users, categories, articles, comments, autoInc, issued, now>>
     /\ Respond(r, q, 200, IF q.id \in DOMAIN articles THEN ArticleRow(q.id) ELSE NoJson)

\* DELETE /articles/:id: DELETE FROM articles WHERE id = ? AND submitter_id = ?
DeleteArticle(r) ==
  /\ Arrives(r)
  /\ \E x \in Requests("DELETE /articles/:id") :
       LET op == "DELETE /articles/:id"
           st == Admit(op, x.authHeader, x.param, x.body, now)
           q == Stmt([Fresh(op, x) EXCEPT !.owner = ArticleOwner(Number(x.param))])
       IN /\ UNCHANGED now
          /\ IF st # 0 THEN Reject(r, op, x, st)
             ELSE /\ UNCHANGED <<users, categories, autoInc, issued>>
                  /\ IF OwnArticle(q)
                       THEN /\ articles' = Drop(articles, {q.id})
                            /\ comments' = Drop(comments, CommentsOfArticles({q.id}))
                            /\ Respond(r, q, 204, NoJson)
                       ELSE /\ UNCHANGED <<articles, comments>>
                            /\ Respond(r, q, 403,
                                       [message |-> "You can only delete your own articles"])

(***************************************************************************)
(* routes/comments.                                                        *)
(***************************************************************************)
CommentOwner(id) == IF id \in DOMAIN comments THEN comments[id].user_id ELSE 0

\* SELECT id FROM articles WHERE id = ?
\* the lookup without its WHERE clause
articleRowsAll(article_id) == DOMAIN articles
\* the lookup that finds a row for every id
articleRowsAny(article_id) == {article_id}
articleRows(article_id) == {a \in DOMAIN articles : a = article_id}

CommentRow(id) ==
  [id |-> id, content |-> comments[id].content, article_id |-> comments[id].article_id,
   user_id |-> comments[id].user_id]

\* GET /comments
GetComments(r) ==
  /\ Arrives(r)
  /\ \E x \in Requests("GET /comments") :
       LET op == "GET /comments"
           q == Stmt(Fresh(op, x))
       IN /\ UNCHANGED <<users, categories, articles, comments, autoInc, issued, now>>
          /\ Respond(r, q, 200, {CommentWithName(c) : c \in JoinedComments})

\* GET /comments/:id
GetComment(r) ==
  /\ Arrives(r)
  /\ \E x \in Requests("GET /comments/:id") :
       LET op == "GET /comments/:id"
           st == Admit(op, x.authHeader, x.param, x.body, now)
           q == Stmt(Fresh(op, x))
       IN /\ UNCHANGED now
          /\ IF st # 0 THEN Reject(r, op, x, st)
             ELSE /\ UNCHANGED <<users, categories, articles, comments, autoInc, issued>>
                  /\ IF q.id \notin JoinedComments
                       THEN Respond(r, q, 404, [error |-> "Comment not found"])
                       ELSE Respond(r, q, 200, CommentWithName(q.id))

\* POST /comments: SELECT id FROM articles WHERE id = ?
PostComment(r) ==
  /\ Arrives(r)
  /\ \E x \in Requests("POST /comments") :
       LET op == "POST /comments"
           st == Admit(op, x.authHeader, x.param, x.body, now)
           q0 == Fresh(op, x)
           found == articleRows(q0.body.article_id)
           q == Stmt([q0 EXCEPT !.ref = Found(q0.body.article_id \in DOMAIN articles)])
       IN /\ UNCHANGED now
          /\ IF st # 0 THEN Reject(r, op, x, st)
             ELSE /\ UNCHANGED <<users, categories, articles, comments, autoInc, issued>>
                  /\ IF found = {}
                       THEN Respond(r, q, 404, [message |-> "Article not found"])
                       ELSE Continue(r, q, "insert")

\* the owner reference a new comment gets: req.user.id
Commenter(q) == q.user

\* POST /comments: INSERT INTO comments (content, article_id, user_id) VALUES (?, ?, ?)
PostCommentInsert(r) ==
  LET insertId == autoInc.comments
      q == [Stmt(req[r]) EXCEPT !.id = insertId]
      row == [content |-> q.body.content, article_id |-> q.body.article_id,
              user_id |-> Commenter(q)]
  IN /\ Resumes(r, "POST /comments", "insert")
     /\ autoInc' = Bump(autoInc, "comments")
     /\ UNCHANGED <<users, categories, articles, issued, now>>
     /\ IF comments_ibfk_1(row) /\ comments_ibfk_2(row)
          THEN /\ comments' = Put(comments, insertId, row)
               /\ Respond(r, q, 201, row @@ [id |-> insertId])
          ELSE /\ UNCHANGED comments
               /\ errorHandler(r, q, ER_NO_REFERENCED_ROW_2)

\* PUT /comments/:id: SELECT id FROM articles WHERE id = ?
PutComment(r) ==
  /\ Arrives(r)
  /\ \E x \in Requests("PUT /comments/:id") :
       LET op == "PUT /comments/:id"
           st == Admit(op, x.authHeader, x.param, x.body, now)
           q0 == Fresh(op, x)
           found == articleRows(q0.body.article_id)
           q == Stmt([q0 EXCEPT !.owner = CommentOwner(q0.id),
                                !.ref = Found(q0.body.article_id \in DOMAIN articles)])
       IN /\ UNCHANGED now
          /\ IF st # 0 THEN Reject(r, op, x, st)
             ELSE /\ UNCHANGED <<users, categories, articles, comments, autoInc, issued>>
                  /\ IF found = {}
                       THEN Respond(r, q, 404, [message |-> "Article not found"])
                       ELSE Continue(r, q, "update")

\* the WHERE clause without the owner
OwnCommentAnyCaller(q) == q.id \in DOMAIN comments

\* WHERE id = ? AND user_id = ?
OwnComment(q) == q.id \in DOMAIN comments /\ comments[q.id].user_id = q.user

\* PUT /comments/:id: UPDATE comments SET content = ?, article_id = ? WHERE id = ?
\* AND user_id = ?
PutCommentUpdate(r) ==
  LET q == Stmt(req[r])
      row == [content |-> q.body.content, article_id |-> q.body.article_id,
              user_id |-> q.user]
  IN /\ Resumes(r, "PUT /comments/:id", "update")
     /\ UNCHANGED <<users, categories, articles, autoInc, issued, now>>
     /\ IF ~OwnComment(q)
          THEN /\ UNCHANGED comments
               /\ Respond(r, q, 403, [message |-> "You can only edit your own comments"])
        ELSE IF ~comments_ibfk_1(row)
          THEN /\ UNCHANGED comments
               /\ errorHandler(r, q, ER_NO_REFERENCED_ROW_2)
        ELSE /\ comments' = [comments EXCEPT ![q.id].content = row.content,
                                             ![q.id].article_id = row.article_id]
             /\ Respond(r, q, 201, row @@ [id |-> q.id])

\* PATCH /comments/:id: UPDATE comments SET <fieldsToUpdate> WHERE id = ? AND
\* user_id = ?
PatchCommentWrite(r, q) ==
  LET fieldsToUpdate ==
        (IF q.body.content # Undefined THEN {"content"} ELSE {})
          \cup (IF q.body.article_id # NoId THEN {"article_id"} ELSE {})
      row == IF q.id \in DOMAIN comments
               THEN [f \in DOMAIN comments[q.id] |->
                       IF f \in fieldsToUpdate THEN q.body[f] ELSE comments[q.id][f]]
               ELSE NoJson
  IN /\ UNCHANGED <<users, categories, articles, autoInc, issued, now>>
     /\ IF fieldsToUpdate = {}
          \* UPDATE comments SET  WHERE ...: the statement does not parse
          THEN /\ UNCHANGED comments
               /\ errorHandler(r, q, ER_PARSE_ERROR)
        ELSE IF ~OwnComment(q)
          THEN /\ UNCHANGED comments
               /\ Respond(r, q, 403, [message |-> "You can only edit your own comments"])
        ELSE IF ~comments_ibfk_1(row)
          THEN /\ UNCHANGED comments
               /\ errorHandler(r, q, ER_NO_REFERENCED_ROW_2)
        ELSE /\ comments' = [comments EXCEPT ![q.id] = row]
             /\ Continue(r, q, "select")

\* PATCH /comments/:id: SELECT id FROM articles WHERE id = ?, when the body has an
\* article_id; the UPDATE is the first statement otherwise
PatchComment(r) ==
  /\ Arrives(r)
  /\ \E x \in Requests("PATCH /comments/:id") :
       LET op == "PATCH /comments/:id"
           st == Admit(op, x.authHeader, x.param, x.body, now)
           q0 == [Fresh(op, x) EXCEPT !.owner = CommentOwner(Number(x.param))]
           found == articleRows(q0.body.article_id)
           q == Stmt([q0 EXCEPT !.ref = Found(q0.body.article_id \in DOMAIN articles)])
       IN IF st # 0 THEN Reject(r, op, x, st) /\ UNCHANGED now
          ELSE IF q0.body.article_id # NoId
            THEN /\ UNCHANGED <<users, categories, articles, comments, autoInc, issued, now>>
                 /\ IF found = {}
                      THEN Respond(r, q, 404, [message |-> "Article not found"])
                      ELSE Continue(r, q, "update")
          ELSE PatchCommentWrite(r, Stmt(q0))

PatchCommentUpdate(r) ==
  /\ Resumes(r, "PATCH /comments/:id", "update")
  /\ PatchCommentWrite(r, Stmt(req[r]))

\* PATCH /comments/:id: SELECT * FROM comments WHERE id = ?
PatchCommentSelect(r) ==
  LET q == Stmt(req[r])
  IN /\ Resumes(r, "PATCH /comments/:id", "select")
     /\ UNCHANGED <<users, categories, articles, comments, autoInc, issued, now>>
     /\ Respond(r, q, 200, IF q.id \in DOMAIN comments THEN CommentRow(q.id) ELSE NoJson)

\* DELETE /comments/:id: DELETE FROM comments WHERE id = ? AND user_id = ?
DeleteComment(r) ==
  /\ Arrives(r)
  /\ \E x \in Requests("DELETE /comments/:id") :
       LET op == "DELETE /comments/:id"
           st == Admit(op, x.authHeader, x.param, x.body, now)
           q == Stmt([Fresh(op, x) EXCEPT !.owner = CommentOwner(Number(x.param))])
       IN /\ UNCHANGED now
          /\ IF st # 0 THEN Reject(r, op, x, st)
             ELSE /\ UNCHANGED <<users, categories, articles, autoInc, issued>>
                  /\ IF OwnComment(q)
                       THEN /\ comments' = Drop(comments, {q.id})
                            /\ Respond(r, q, 204, NoJson)
                       ELSE /\ UNCHANGED comments
                            /\ Respond(r, q, 403,
                                       [message |-> "You can only delete your own comments"])

(***************************************************************************)
(* The clock.  It is read where a request arrives (jwt.verify in           *)
(* authenticateToken, jwt.sign in the login handler) and nowhere else, so  *)
(* it advances only while a request is still to arrive.                    *)
(***************************************************************************)
Tick ==
  /\ now + TickHours <= MaxTicks * TickHours
  /\ started < MaxRequests
  /\ now' = now + TickHours
  /\ UNCHANGED <<users, categories, articles, comments, autoInc, issued, req, last, started>>

Next ==
  \/ \E r \in Slots : Register(r)
  \/ \E r \in Slots : RegisterInsert(r)
  \/ \E r \in Slots : Login(r)
  \/ \E r \in Slots : GetUsers(r)
  \/ \E r \in Slots : GetUser(r)
  \/ \E r \in Slots : GetUserComments(r)
  \/ \E r \in Slots : GetUserArticles(r)
  \/ \E r \in Slots : PutUser(r)
  \/ \E r \in Slots : PatchUser(r)
  \/ \E r \in Slots : PatchUserSelect(r)
  \/ \E r \in Slots : DeleteUser(r)
  \/ \E r \in Slots : GetCategories(r)
  \/ \E r \in Slots : GetCategory(r)
  \/ \E r \in Slots : GetCategoryArticles(r)
  \/ \E r \in Slots : PostCategory(r)
  \/ \E r \in Slots : PutCategory(r)
  \/ \E r \in Slots : PatchCategory(r)
  \/ \E r \in Slots : PatchCategorySelect(r)
  \/ \E r \in Slots : DeleteCategory(r)
  \/ \E r \in Slots : GetArticles(r)
  \/ \E r \in Slots : GetArticle(r)
  \/ \E r \in Slots : GetArticleComments(r)
  \/ \E r \in Slots : PostArticle(r)
  \/ \E r \in Slots : PostArticleInsert(r)
  \/ \E r \in Slots : PutArticle(r)
  \/ \E r \in Slots : PutArticleUpdate(r)
  \/ \E r \in Slots : PatchArticle(r)
  \/ \E r \in Slots : PatchArticleUpdate(r)
  \/ \E r \in Slots : PatchArticleSelect(r)
  \/ \E r \in Slots : DeleteArticle(r)
  \/ \E r \in Slots : GetComments(r)
  \/ \E r \in Slots : GetComment(r)
  \/ \E r \in Slots : PostComment(r)
  \/ \E r \in Slots : PostCommentInsert(r)
  \/ \E r \in Slots : PutComment(r)
  \/ \E r \in Slots : PutCommentUpdate(r)
  \/ \E r \in Slots : PatchComment(r)
  \/ \E r \in Slots : PatchCommentUpdate(r)
  \/ \E r \in Slots : PatchCommentSelect(r)
  \/ \E r \in Slots : DeleteComment(r)
  \/ Tick

Spec == Init /\ [][Next]_vars

\* a step of the request in slot r: an awaited pool.execute completes or fails
\* and the handler runs on to its next await or to its answer
Resume(r) ==
  \/ RegisterInsert(r)
  \/ PatchUserSelect(r)
  \/ PatchCategorySelect(r)
  \/ PostArticleInsert(r)
  \/ PutArticleUpdate(r)
  \/ PatchArticleUpdate(r)
  \/ PatchArticleSelect(r)
  \/ PostCommentInsert(r)
  \/ PutCommentUpdate(r)
  \/ PatchCommentUpdate(r)
  \/ PatchCommentSelect(r)

\* every storage operation that was issued completes or fails
FairSpec == Spec /\ \A r \in Slots : WF_vars(Resume(r))

(***************************************************************************)
(* Routes by what they do.                                                 *)
(***************************************************************************)
OwnedWrites ==
  {"PUT /articles/:id", "PATCH /articles/:id", "DELETE /articles/:id",
   "PUT /comments/:id", "PATCH /comments/:id", "DELETE /comments/:id"}
UserWrites == {"PUT /users/:id", "PATCH /users/:id", "DELETE /users/:id"}
ArticleWrites == {"POST /articles", "PUT /articles/:id", "PATCH /articles/:id"}
CommentWrites == {"POST /comments", "PUT /comments/:id", "PATCH /comments/:id"}

\* the last response answers a request on a row that existed, with another
\* user as its owner, when the request arrived
ByNonOwner ==
  /\ last.op \in OwnedWrites
  /\ last.authed
  /\ last.owner # 0
  /\ last.owner # last.user
  /\ last.ref # "missing"

(***************************************************************************)
(* C1: a PUT, PATCH or DELETE of an article or a comment by an             *)
(* authenticated caller who is not the owner of the existing row, with a   *)
(* valid id and body and an existing referenced category or article, is    *)
(* answered 403 and changes no stored row.                                 *)
(***************************************************************************)
C1_NonOwnerIsForbidden ==
  ByNonOwner => last.status = 403 /\ ~last.changed

(***************************************************************************)
(* C2: PUT, PATCH and DELETE /users/:id by an authenticated caller whose   *)
(* id differs from :id are answered 403 by the guard clause, before any    *)
(* statement is issued, and change no row of any table.                    *)
(***************************************************************************)
C2_UserGuardClause ==
  (last.op \in UserWrites /\ last.authed /\ last.user # Number(last.request.param))
    => last.status = 403 /\ last.stmts = 0 /\ ~last.changed

\* user 1 asks to delete the stored user 2 and is refused
C2_Witness ==
  /\ last.op = "DELETE /users/:id"
  /\ last.authed
  /\ last.user = 1
  /\ last.request.param = <<"2">>
  /\ last.owner = 2
  /\ last.status = 403

(***************************************************************************)
(* C3: in every reachable state the category_id of every stored article    *)
(* names a stored category and the article_id of every stored comment      *)
(* names a stored article, whatever the interleaving of creates, updates   *)
(* and deletes.                                                            *)
(***************************************************************************)
C3_ReferencesResolve ==
  /\ \A a \in DOMAIN articles : articles[a].category_id \in DOMAIN categories
  /\ \A c \in DOMAIN comments : comments[c].article_id \in DOMAIN articles

\* a create found its category, the category was deleted before the INSERT,
\* and the INSERT was refused
C3_Witness ==
  /\ last.op = "POST /articles"
  /\ last.ref = "found"
  /\ last.request.body.category_id \notin DOMAIN categories
  /\ last.status = 500

(***************************************************************************)
(* C4: an authenticated POST /articles, PUT /articles/:id or               *)
(* PATCH /articles/:id whose body has a category_id that names no stored   *)
(* category is answered 404 and neither inserts nor changes a row.         *)
(***************************************************************************)
C4_MissingCategoryIs404 ==
  (last.op \in ArticleWrites /\ last.authed /\ last.ref = "missing")
    => last.status = 404 /\ ~last.changed

\* a PATCH of the stored article 1 by its owner names category 3
C4_Witness ==
  /\ last.op = "PATCH /articles/:id"
  /\ last.authed
  /\ last.owner = last.user
  /\ last.request.body.category_id = 3
  /\ last.ref = "missing"
  /\ last.status = 404

(***************************************************************************)
(* C5: an authenticated POST /comments, PUT /comments/:id or               *)
(* PATCH /comments/:id whose body has an article_id that names no stored   *)
(* article is answered 404 and neither inserts nor changes a row.          *)
(***************************************************************************)
C5_MissingArticleIs404 ==
  (last.op \in CommentWrites /\ last.authed /\ last.ref = "missing")
    => last.status = 404 /\ ~last.changed

\* a PUT of the stored comment 1 by its owner names article 2
C5_Witness ==
  /\ last.op = "PUT /comments/:id"
  /\ last.authed
  /\ last.owner = last.user
  /\ last.request.body.article_id = 2
  /\ last.ref = "missing"
  /\ last.status = 404


(***************************************************************************)
(* C6: the owner reference of every stored article and comment is the      *)
(* userId of the token of the request that inserted the row, whatever      *)
(* submitter_id or user_id the body of that request had; no step changes   *)
(* the owner reference of a row that stays stored; and the owner reference *)
(* names a stored user in every state.                                     *)
(***************************************************************************)
Caller(q) == q.request.authHeader.token.userId

InsertedBy(r, op) ==
  /\ req[r].op = op
  /\ req[r].pc = "insert"
  /\ req'[r].pc = "idle"

OwnersResolve ==
  /\ \A a \in DOMAIN articles : articles[a].submitter_id \in DOMAIN users
  /\ \A c \in DOMAIN comments : comments[c].user_id \in DOMAIN users

C6_OwnerStep ==
  /\ \A a \in DOMAIN articles' :
       IF a \in DOMAIN articles
         THEN articles'[a].submitter_id = articles[a].submitter_id
         ELSE \E r \in Slots : /\ InsertedBy(r, "POST /articles")
                               /\ articles'[a].submitter_id = Caller(req[r])
  /\ \A c \in DOMAIN comments' :
       IF c \in DOMAIN comments
         THEN comments'[c].user_id = comments[c].user_id
         ELSE \E r \in Slots : /\ InsertedBy(r, "POST /comments")
                               /\ comments'[c].user_id = Caller(req[r])
  /\ OwnersResolve
  /\ OwnersResolve'

C6_OwnerIsCreator == [][C6_OwnerStep]_vars

\* user 1 has created an article with submitter_id 2 in the body, and the
\* stored row names user 1
C6_Witness ==
  /\ last.op = "POST /articles"
  /\ last.status = 201
  /\ last.user = 1
  /\ last.request.body.submitter_id = 2
  /\ last.id \in DOMAIN articles
  /\ articles[last.id].submitter_id = 1

(***************************************************************************)
(* C7: authenticateToken answers 401 without an Authorization header, 401  *)
(* when the header has no Bearer prefix, 403 when the token was not signed *)
(* by the server or is more than 24 hours old, and otherwise passes on     *)
(* with the userId of the token as caller; a request it rejects issues no  *)
(* statement and changes no row.                                           *)
(***************************************************************************)
GuardedRoutes ==
  {"PUT /users/:id", "PATCH /users/:id", "DELETE /users/:id",
   "POST /categories", "PUT /categories/:id", "PATCH /categories/:id",
   "DELETE /categories/:id",
   "POST /articles", "PUT /articles/:id", "PATCH /articles/:id", "DELETE /articles/:id",
   "POST /comments", "PUT /comments/:id", "PATCH /comments/:id", "DELETE /comments/:id"}

Reads ==
  {"GET /users", "GET /users/:id", "GET /users/:id/comments", "GET /users/:id/articles",
   "GET /categories", "GET /categories/:id", "GET /categories/:id/articles",
   "GET /articles", "GET /articles/:id", "GET /articles/:id/comments",
   "GET /comments", "GET /comments/:id"}

GuardHolds(routes) ==
  /\ (last.op \in routes /\ last.changed) => last.authed
  /\ \A r \in Slots : (req[r].op \in routes /\ req[r].changed) => req[r].authed
  /\ last.op \in Reads => last.status \notin {401, 403}

C8_AsStated == GuardHolds(GuardedRoutes \cup {"POST /register"})

(***************************************************************************)
(* C8: every create, update and delete endpoint of users, categories,      *)
(* articles and comments except POST /register changes rows only for a     *)
(* request the authentication guard has accepted; POST /register creates a *)
(* user without a credential; no GET endpoint answers 401 or 403.          *)
(***************************************************************************)
C8_GuardExceptRegister ==
  /\ GuardHolds(GuardedRoutes)
  /\ last.op = "POST /register" => ~last.authed

\* a user has registered without a credential, and a category has then been
\* deleted by an authenticated caller
C8_Witness ==
  /\ 3 \in DOMAIN users
  /\ last.op = "DELETE /categories/:id"
  /\ last.changed
  /\ last.authed

(***************************************************************************)
(* C9: in every reachable state no two stored users have the same email    *)
(* and no two have the same username.                                      *)
(***************************************************************************)
C9_UniqueUsers ==
  \A u, v \in DOMAIN users :
    u # v => /\ users[u].email # users[v].email
             /\ users[u].username # users[v].username

(***************************************************************************)
(* C10: a POST /register with valid input is answered 400, and inserts     *)
(* nothing, when a stored user has its email or its username at the time   *)
(* of the lookup; otherwise it is answered 201 and inserts exactly one     *)
(* user row, under an id no stored user has.                               *)
(***************************************************************************)
Held(body) ==
  \E u \in DOMAIN users : users[u].email = body.email \/ users[u].username = body.username

C10_RegisterStep ==
  \* the request is answered in the step of the lookup
  /\ (started' # started /\ req' = req /\ last'.op = "POST /register"
        /\ registrationSchema(last'.request.body))
       => Held(last'.request.body) /\ last'.status = 400 /\ users' = users
  \* the request goes on to the INSERT
  /\ \A r \in Slots :
       (req[r].pc = "idle" /\ req'[r].op = "POST /register")
         => ~Held(req'[r].request.body) /\ users' = users
  \* the INSERT
  /\ \A r \in Slots :
       InsertedBy(r, "POST /register")
         => /\ last'.status = 201
            /\ last'.id \notin DOMAIN users
            /\ DOMAIN users' = DOMAIN users \cup {last'.id}
            /\ \A u \in DOMAIN users : users'[u] = users[u]
            /\ users'[last'.id].email = req[r].request.body.email
            /\ users'[last'.id].username = req[r].request.body.username

C10_Register == [][C10_RegisterStep]_vars

\* carla has registered under id 3, and a second registration with her
\* email is refused
C10_Witness ==
  /\ DOMAIN users = {1, 2, 3}
  /\ users[3].email = "c@ex.com"
  /\ last.op = "POST /register"
  /\ last.request.body.email = "c@ex.com"
  /\ last.status = 400
  /\ last.stmts = 1

(***************************************************************************)
(* C11: a valid registration with an unused email and username succeeds,   *)
(* a later login with the same email and password is answered 200, and     *)
(* the token of that answer passes authenticateToken with the id of the    *)
(* registered user as caller.                                              *)
(***************************************************************************)
\* the step answers a request in the step of its arrival
AnsweredOnArrival(op) ==
  /\ started' # started
  /\ req' = req
  /\ last'.op = op

Bearer(token) == [scheme |-> "Bearer", token |-> token]

C11_RoundTripStep ==
  /\ \A r \in Slots :
       InsertedBy(r, "POST /register")
         => /\ last'.status = 201
            /\ last'.id \in DOMAIN users'
            /\ users'[last'.id].email = req[r].request.body.email
            /\ bcryptCompare(req[r].request.body.password, users'[last'.id].password)
  /\ AnsweredOnArrival("POST /login")
       => \A u \in DOMAIN users :
            (/\ users[u].email = last'.request.body.email
             /\ bcryptCompare(last'.request.body.password, users[u].password))
              => /\ last'.status = 200
                 /\ authenticateToken(Bearer(last'.json.token), now') = 0
                 /\ AuthUser(Bearer(last'.json.token), now') = u

C11_RoundTrip == [][C11_RoundTripStep]_vars

(***************************************************************************)
(* C12: POST /login answers 401 with the same body when no user has the    *)
(* email as when a user has it and the password does not match the stored  *)
(* hash, and issues no token in either case.                               *)
(***************************************************************************)
InvalidCredentials == [error |-> "Invalid email or password"]

C12_LoginStep ==
  (AnsweredOnArrival("POST /login") /\ loginSchema(last'.request.body))
    => LET body == last'.request.body
           known == {u \in DOMAIN users : users[u].email = body.email}
           refused == /\ last'.status = 401
                      /\ last'.json = InvalidCredentials
                      /\ issued' = issued
       IN /\ known = {} => refused
          /\ (/\ known # {}
              /\ \A u \in known : users[u].password # bcryptHash(body.password))
               => refused

C12_LoginRefusals == [][C12_LoginStep]_vars

\* alice is stored and a login with her email and another password is refused
C12_Witness ==
  /\ last.op = "POST /login"
  /\ last.request.body.email = "a@ex.com"
  /\ last.request.body.password = "pw2"
  /\ \E u \in DOMAIN users : users[u].email = "a@ex.com"
  /\ last.status = 401
  /\ last.json = InvalidCredentials

(***************************************************************************)
(* C13: a DELETE /users/:id answered 204 removes the user, every article   *)
(* of that submitter, every comment of that user and every comment on a    *)
(* removed article, whoever wrote it; the categories and every other       *)
(* article, comment and user are unchanged.                                *)
(***************************************************************************)
Kept(table, table2, keep(_)) ==
  /\ DOMAIN table2 = {i \in DOMAIN table : keep(i)}
  /\ \A i \in DOMAIN table2 : table2[i] = table[i]

C13_DeleteUserStep ==
  (AnsweredOnArrival("DELETE /users/:id") /\ last'.status = 204)
    => LET id == Number(last'.request.param)
           keepUser(u) == u # id
           keepArticle(a) == articles[a].submitter_id # id
           keepComment(c) ==
             /\ comments[c].user_id # id
             /\ articles[comments[c].article_id].submitter_id # id
       IN /\ id \in DOMAIN users
          /\ Kept(users, users', keepUser)
          /\ Kept(articles, articles', keepArticle)
          /\ Kept(comments, comments', keepComment)
          /\ categories' = categories

C13_DeleteUserCascade == [][C13_DeleteUserStep]_vars

\* alice is deleted: her article goes, and with it the comment of ben on it
C13_Witness ==
  /\ last.op = "DELETE /users/:id"
  /\ last.status = 204
  /\ last.request.param = <<"1">>
  /\ DOMAIN users = {2}
  /\ DOMAIN articles = {}
  /\ DOMAIN comments = {}
  /\ DOMAIN categories = {1, 2}

(***************************************************************************)
(* C14: a DELETE /categories/:id by an authenticated caller, for a         *)
(* category that an article references, is answered with an error, never   *)
(* 204, and leaves the category and every article unchanged.               *)
(***************************************************************************)
C14_DeleteCategoryStep ==
  (/\ AnsweredOnArrival("DELETE /categories/:id")
   /\ last'.authed
   /\ \E a \in DOMAIN articles : articles[a].category_id = Number(last'.request.param))
    => /\ last'.status # 204
       /\ last'.status >= 400
       /\ categories' = categories
       /\ articles' = articles

C14_ReferencedCategoryStays == [][C14_DeleteCategoryStep]_vars

\* ben asks to delete category 1, which article 1 references
C14_Witness ==
  /\ last.op = "DELETE /categories/:id"
  /\ last.authed
  /\ last.request.param = <<"1">>
  /\ 1 \in DOMAIN articles
  /\ articles[1].category_id = 1
  /\ 1 \in DOMAIN categories
  /\ last.status = 500

(***************************************************************************)
(* C15 as stated: an authenticated update or delete of an article, a       *)
(* comment or a user whose statement matches no row is answered 403, with  *)
(* the same body whether the row does not exist or belongs to another      *)
(* user.                                                                   *)
(***************************************************************************)
\* the step answers a request that was waiting at pc
AnsweredFrom(op, pc) ==
  \E r \in Slots : req[r].op = op /\ req[r].pc = pc /\ req'[r].pc = "idle"

Forbidden(op) ==
  CASE op \in {"PUT /articles/:id", "PATCH /articles/:id"} ->
         [message |-> "You can only edit your own articles"]
    [] op = "DELETE /articles/:id" -> [message |-> "You can only delete your own articles"]
    [] op \in {"PUT /comments/:id", "PATCH /comments/:id"} ->
         [message |-> "You can only edit your own comments"]
    [] op = "DELETE /comments/:id" -> [message |-> "You can only delete your own comments"]
    [] op \in {"PUT /users/:id", "PATCH /users/:id"} ->
         [message |-> "You can only edit your own user"]
    [] op = "DELETE /users/:id" -> [message |-> "You can only delete your own user"]

\* the step runs the UPDATE or DELETE of an article or comment route and answers
WroteOwned(op) ==
  CASE op \in {"DELETE /articles/:id", "DELETE /comments/:id"} ->
         AnsweredOnArrival(op) /\ last'.authed
    [] op \in {"PUT /articles/:id", "PUT /comments/:id"} -> AnsweredFrom(op, "update")
    [] op = "PATCH /articles/:id" ->
         \/ AnsweredFrom(op, "update")
         \/ /\ AnsweredOnArrival(op)
            /\ last'.authed
            /\ last'.request.body.category_id = NoId
            /\ \E f \in {"title", "body"} : last'.request.body[f] # Undefined
    [] op = "PATCH /comments/:id" ->
         \/ AnsweredFrom(op, "update")
         \/ /\ AnsweredOnArrival(op)
            /\ last'.authed
            /\ last'.request.body.article_id = NoId
            /\ last'.request.body.content # Undefined

\* no row has the id of the request and the caller as owner
NoRowOfCaller(op) ==
  IF op \in {"PUT /articles/:id", "PATCH /articles/:id", "DELETE /articles/:id"}
    THEN \/ last'.id \notin DOMAIN articles
         \/ articles[last'.id].submitter_id # last'.user
    ELSE \/ last'.id \notin DOMAIN comments
         \/ comments[last'.id].user_id # last'.user

\* the step runs the UPDATE or DELETE of a users route for the caller's own
\* id, and no user has that id
WroteNoUser(op) ==
  /\ AnsweredOnArrival(op)
  /\ last'.authed
  /\ last'.user = last'.id
  /\ last'.id \notin DOMAIN users
  /\ op = "PATCH /users/:id"
       => \E f \in {"username", "email"} : last'.request.body[f] # Undefined

ZeroRowsStep(noUserStatus) ==
  /\ \A op \in OwnedWrites :
       (WroteOwned(op) /\ NoRowOfCaller(op))
         => /\ last'.status = 403
            /\ last'.json = Forbidden(op)
            /\ rows' = rows
  /\ \A op \in UserWrites :
       /\ (AnsweredOnArrival(op) /\ last'.authed /\ last'.user # last'.id)
            => /\ last'.status = 403
               /\ last'.json = Forbidden(op)
               /\ rows' = rows
       /\ WroteNoUser(op) => last'.status = noUserStatus /\ rows' = rows

C15_AsStated == [][ZeroRowsStep(403)]_vars

(***************************************************************************)
(* C15: an authenticated update or delete of an article or a comment whose *)
(* statement matches no row is answered 403, with the same body whether    *)
(* the row does not exist or belongs to another user.  On /users/:id a     *)
(* caller other than :id is answered 403 whether or not the user exists,   *)
(* and a caller whose own row no longer exists is answered 404.            *)
(***************************************************************************)
C15_ZeroRows == [][ZeroRowsStep(404)]_vars

\* alice asks to delete article 2, which does not exist, and is answered as
\* for an article of another user
C15_Witness ==
  /\ last.op = "DELETE /articles/:id"
  /\ last.authed
  /\ last.request.param = <<"2">>
  /\ last.owner = 0
  /\ 2 \notin DOMAIN articles
  /\ last.status = 403
  /\ last.json = Forbidden(last.op)

(***************************************************************************)
(* C16: of the DELETE requests of the owner for one stored article or      *)
(* comment, in whatever order their statements run, the first is answered  *)
(* 204 and removes the row, and every later one is answered 403 and        *)
(* changes nothing: a removed row never comes back, so exactly one request *)
(* is answered 204.                                                        *)
(***************************************************************************)
DeleteStep(op, table, table2, ownerField) ==
  (AnsweredOnArrival(op) /\ last'.authed)
    => LET id == Number(last'.request.param)
           caller == Caller(last')
       IN IF id \in DOMAIN table /\ table[id][ownerField] = caller
            THEN /\ last'.status = 204
                 /\ id \notin DOMAIN table2
                 /\ \A i \in DOMAIN table \ {id} : i \in DOMAIN table2 /\ table2[i] = table[i]
            ELSE /\ last'.status = 403
                 /\ rows' = rows

\* an id is given once: a new row takes the AUTO_INCREMENT value, which is
\* above every id given so far
IdsGivenOnce(table, table2, name) ==
  /\ \A i \in DOMAIN table : i < autoInc[name]
  /\ \A i \in DOMAIN table2 \ DOMAIN table : i >= autoInc[name] /\ i < autoInc'[name]

C16_DeleteStep ==
  /\ DeleteStep("DELETE /articles/:id", articles, articles', "submitter_id")
  /\ DeleteStep("DELETE /comments/:id", comments, comments', "user_id")
  /\ IdsGivenOnce(articles, articles', "articles")
  /\ IdsGivenOnce(comments, comments', "comments")

C16_OneDeleteWins == [][C16_DeleteStep]_vars

\* alice has deleted her article 1 and her second DELETE of it is refused
C16_Witness ==
  /\ last.op = "DELETE /articles/:id"
  /\ last.user = 1
  /\ last.request.param = <<"1">>
  /\ last.status = 403
  /\ started = 2
  /\ 1 \in DOMAIN users
  /\ 1 \notin DOMAIN articles
  /\ autoInc.articles = 2

(***************************************************************************)
(* C17: when the category of an article create or update, or the article   *)
(* of a comment create or update, has been deleted after the lookup found  *)
(* it and before the write runs, the write changes no row, the request is  *)
(* answered with an error (500 from the foreign key when the write reaches *)
(* a row, 403 when an update matches no row of the caller), and the slot   *)
(* is free for the next request.                                           *)
(***************************************************************************)
\* slot r runs the write of op, and the row its lookup found is gone
WriteAfterDelete(r, ops, table, refField) ==
  /\ req[r].op \in ops
  /\ req[r].pc \in {"insert", "update"}
  /\ req[r].ref = "found"
  /\ req[r].body[refField] \notin DOMAIN table
  /\ req'[r] # req[r]

RefusedWrite(r, reaches) ==
  /\ rows' = rows
  /\ last'.request = req[r].request
  /\ last'.status = IF reaches THEN 500 ELSE 403
  /\ req' = [req EXCEPT ![r] = Idle]

C17_WriteStep ==
  \A r \in Slots :
    /\ WriteAfterDelete(r, ArticleWrites, categories, "category_id")
         => RefusedWrite(r, \/ req[r].op = "POST /articles"
                            \/ /\ req[r].id \in DOMAIN articles
                               /\ articles[req[r].id].submitter_id = Caller(req[r]))
    /\ WriteAfterDelete(r, CommentWrites, articles, "article_id")
         => RefusedWrite(r, \/ req[r].op = "POST /comments"
                            \/ /\ req[r].id \in DOMAIN comments
                               /\ comments[req[r].id].user_id = Caller(req[r]))

SequenceRoutes == {"GET /users", "GET /articles"}
ListRoutes ==
  {"GET /categories", "GET /comments", "GET /users/:id/comments",
   "GET /articles/:id/comments"}

TextFields ==
  {"username", "email", "error", "message", "name", "description", "title", "body",
   "content", "category_name", "submitter_name", "user_name"}

HasPassword(json) ==
  \/ "password" \in DOMAIN json
  \/ \E f \in DOMAIN json \cap TextFields : json[f] \in Passwords

C18_NoPassword ==
  IF last.status # 200 \/ last.op \notin ListRoutes \cup SequenceRoutes
    THEN ~HasPassword(last.json)
    ELSE IF last.op \in SequenceRoutes
           THEN \A i \in DOMAIN last.json : ~HasPassword(last.json[i])
           ELSE \A row \in last.json : ~HasPassword(row)

\* a login with the stored password was answered with the user and a token
C18_Witness ==
  /\ last.op = "POST /login"
  /\ last.status = 200
  /\ last.id \in DOMAIN users
  /\ users[last.id].password = bcryptHash(last.request.body.password)
  /\ DOMAIN last.json = {"id", "username", "email", "token"}

(***************************************************************************)
(* C19: a request whose storage statement fails is answered 500, and the   *)
(* body of a 500 is one fixed text: two answers 500 in a row have the same *)
(* body, whatever the statements were that failed.                         *)
(***************************************************************************)
C19_FixedBodyStep ==
  (last.status = 500 /\ last'.status = 500) => last'.json = last.json

C19_GenericBody == [][C19_FixedBodyStep]_vars

(***************************************************************************)
(* C20: the UPDATE of a PATCH that matches a row sets the columns the      *)
(* payload gives a value for (username, email; name, description; title,   *)
(* body, category_id; content, article_id) to that value and leaves every  *)
(* other column of the row, its id and its owner included, every other row *)
(* and every other table as they were.                                     *)
(***************************************************************************)
Given(body, f) ==
  IF f \in {"category_id", "article_id"} THEN body[f] # NoId ELSE body[f] # Undefined

\* slot r has run the UPDATE of op and goes on to read the row back
Updated(r, op) ==
  /\ req'[r].op = op
  /\ req'[r].pc = "select"
  /\ req[r].pc # "select"

PatchStep(op, table, table2, settable, others) ==
  \A r \in Slots :
    Updated(r, op) =>
      LET id == req'[r].id
          body == req'[r].request.body
      IN /\ id \in DOMAIN table
         /\ DOMAIN table2 = DOMAIN table
         /\ \A k \in DOMAIN table \ {id} : table2[k] = table[k]
         /\ \A f \in DOMAIN table[id] :
              table2[id][f] = IF f \in settable /\ Given(body, f)
                                THEN body[f] ELSE table[id][f]
         /\ settable \subseteq DOMAIN table[id]
         /\ \E f \in settable : Given(body, f)
         /\ others

C20_PatchStep ==
  /\ PatchStep("PATCH /users/:id", users, users', {"username", "email"},
               UNCHANGED <<categories, articles, comments>>)
  /\ PatchStep("PATCH /categories/:id", categories, categories', {"name", "description"},
               UNCHANGED <<users, articles, comments>>)
  /\ PatchStep("PATCH /articles/:id", articles, articles', {"title", "body", "category_id"},
               UNCHANGED <<users, categories, comments>>)
  /\ PatchStep("PATCH /comments/:id", comments, comments', {"content", "article_id"},
               UNCHANGED <<users, categories, articles>>)

C20_PatchSetsGivenFields == [][C20_PatchStep]_vars

\* a PATCH with a title, no body and another submitter_id was answered 200:
\* the title is the new one, the body and the submitter are the old ones
C20_Witness ==
  /\ last.op = "PATCH /articles/:id"
  /\ last.status = 200
  /\ last.request.body.title = "t1"
  /\ last.request.body.body = Undefined
  /\ last.request.body.submitter_id = 2
  /\ last.id \in DOMAIN articles
  /\ articles[last.id].title = "t1"
  /\ articles[last.id].body # Undefined
  /\ articles[last.id].submitter_id = 1

(***************************************************************************)
(* C21: a PATCH by the owner of a stored row whose body gives none of the  *)
(* columns of the resource changes no row and is answered 400 (rejected)   *)
(* or 200 (nothing to do), on users, categories, articles and comments     *)
(* alike.                                                                  *)
(***************************************************************************)
PatchRoutes ==
  {"PATCH /users/:id", "PATCH /categories/:id", "PATCH /articles/:id",
   "PATCH /comments/:id"}

PatchColumns(op) ==
  CASE op = "PATCH /users/:id" -> {"username", "email"}
    [] op = "PATCH /categories/:id" -> {"name", "description"}
    [] op = "PATCH /articles/:id" -> {"title", "body", "category_id"}
    [] op = "PATCH /comments/:id" -> {"content", "article_id"}

\* the row the answered request addresses is stored and is the caller's
OwnTarget(op, q) ==
  CASE op = "PATCH /users/:id" -> q.id \in DOMAIN users /\ q.user = q.id
    [] op = "PATCH /categories/:id" -> q.id \in DOMAIN categories
    [] op = "PATCH /articles/:id" ->
         q.id \in DOMAIN articles /\ articles[q.id].submitter_id = q.user
    [] op = "PATCH /comments/:id" ->
         q.id \in DOMAIN comments /\ comments[q.id].user_id = q.user

\* the handler of a PATCH is reached with a body that gives no column
EmptyPatch(op) ==
  /\ AnsweredOnArrival(op)
  /\ last'.authed
  /\ OwnTarget(op, last')
  /\ \A f \in PatchColumns(op) : ~Given(last'.request.body, f)

C21_EmptyPatchStep ==
  \A op \in PatchRoutes :
    EmptyPatch(op) => rows' = rows /\ last'.status \in {200, 400}

C21_EmptyPatchPolicy == [][C21_EmptyPatchStep]_vars

\* the part that holds: an empty PATCH changes no row
C21_EmptyPatchFrameStep ==
  \A op \in PatchRoutes : EmptyPatch(op) => rows' = rows /\ last'.status = 500

C21_EmptyPatchChangesNothing == [][C21_EmptyPatchFrameStep]_vars

(***************************************************************************)
(* C22: for every query of GET /users, getPagination returns a page and a  *)
(* limit that are at least 1 (1 and 10 for a parameter that is not given   *)
(* or is no number) and the offset (page - 1) * limit, which is not        *)
(* negative.                                                               *)
(***************************************************************************)
Pagination(query) == getPagination(NumberOfQuery(query.page), NumberOfQuery(query.limit))

NonNumeric == {<<>>, <<"x">>}

PositivePagination(query) ==
  LET p == Pagination(query)
  IN /\ p.page >= 1
     /\ p.limit >= 1
     /\ query.page \in NonNumeric => p.page = 1
     /\ query.limit \in NonNumeric => p.limit = 10
     /\ p.offset = (p.page - 1) * p.limit
     /\ p.offset >= 0

C22_PositivePagination ==
  last.op = "GET /users" => PositivePagination(last.request.query)

\* the part that holds: the claim is true of every query without a sign
C22_UnsignedPagination ==
  (last.op = "GET /users" /\ \A f \in {"page", "limit"} :
                               \A i \in DOMAIN last.request.query[f] :
                                 last.request.query[f][i] # "-")
    => PositivePagination(last.request.query)

(***************************************************************************)
(* C23: a list request with page p and limit l (1 and 10 when not given)   *)
(* answered 200 returns the rows at positions (p-1)*l+1 .. p*l of the      *)
(* table in ascending order of id, fewer when the table ends; on           *)
(* GET /users, GET /categories, GET /articles and GET /comments.           *)
(***************************************************************************)
Positions(ids, p, l) ==
  LET all == Ascending(ids)
      end == IF p * l < Len(all) THEN p * l ELSE Len(all)
  IN SubSeq(all, (p - 1) * l + 1, end)

PageOf(ids, query) == Positions(ids, Pagination(query).page, Pagination(query).limit)

Range(seq) == {seq[i] : i \in DOMAIN seq}

\* GET /users answers with the page, in order
C23_UsersStep ==
  (AnsweredOnArrival("GET /users") /\ last'.status = 200)
    => LET page == PageOf(DOMAIN users, last'.request.query)
       IN /\ DOMAIN last'.json = DOMAIN page
          /\ \A i \in DOMAIN page : last'.json[i] = UserJson(page[i])

ListedIds(op, table) ==
  (AnsweredOnArrival(op) /\ last'.status = 200)
    => {row.id : row \in last'.json} = Range(PageOf(DOMAIN table, last'.request.query))

C23_ListStep ==
  /\ C23_UsersStep
  /\ ListedIds("GET /categories", categories)
  /\ (AnsweredOnArrival("GET /articles") /\ last'.status = 200)
       => {last'.json[i].id : i \in DOMAIN last'.json}
            = Range(PageOf(DOMAIN articles, last'.request.query))
  /\ ListedIds("GET /comments", comments)

C23_ListPage == [][C23_ListStep]_vars

\* the part that holds: GET /users
C23_UsersPage == [][C23_UsersStep]_vars

(***************************************************************************)
(* C24: GET /articles?sort=category lists the articles in non-decreasing   *)
(* order of the name of their category, GET /articles?sort=author in       *)
(* non-decreasing order of the username of their submitter; whatever the   *)
(* sort parameter, the articles listed are the same.                       *)
(***************************************************************************)
\* the names of the model in alphabetical order
Alphabet == <<"Aid", "alice", "ben", "carla", "Climate", "n1">>

Rank(name) == CHOOSE i \in DOMAIN Alphabet : Alphabet[i] = name

NonDecreasing(json, column) ==
  \A i, j \in DOMAIN json : i < j => Rank(json[i][column]) <= Rank(json[j][column])

C24_SortStep ==
  AnsweredOnArrival("GET /articles") =>
    /\ last'.request.query.sort = "category" => NonDecreasing(last'.json, "category_name")
    /\ last'.request.query.sort = "author" => NonDecreasing(last'.json, "submitter_name")

C24_Sorted == [][C24_SortStep]_vars

\* the part that holds: the sort parameter does not change which articles are
\* listed
C24_SameArticlesStep ==
  AnsweredOnArrival("GET /articles") =>
    {last'.json[i].id : i \in DOMAIN last'.json} = DOMAIN articles

C24_SameArticles == [][C24_SameArticlesStep]_vars

(***************************************************************************)
(* C25: GET /users/:id, /categories/:id, /articles/:id and /comments/:id   *)
(* are answered 400 with no statement issued when :id is not the decimal   *)
(* form of a positive integer ("0", "-1" and "x" are not), 404 when :id is *)
(* valid and no row has that id, and 200 with the row otherwise.           *)
(***************************************************************************)
PositiveInteger(param) == validateId(param) = 0 /\ Number(param) > 0

Stored(op) ==
  CASE op = "GET /users/:id" -> DOMAIN users
    [] op = "GET /categories/:id" -> DOMAIN categories
    [] op = "GET /articles/:id" -> DOMAIN articles
    [] op = "GET /comments/:id" -> DOMAIN comments

ReadOne(op, positive(_)) ==
  AnsweredOnArrival(op) =>
    LET param == last'.request.param
    IN IF ~positive(param) THEN last'.status = 400 /\ last'.stmts = 0
       ELSE IF Number(param) \notin Stored(op) THEN last'.status = 404 /\ last'.stmts = 1
       ELSE /\ last'.status = 200
            /\ last'.stmts = 1
            /\ last'.json.id = Number(param)

C25_AsStated == [][\A op \in ReadsOne : ReadOne(op, PositiveInteger)]_vars

\* the part that holds: the same with "not a sequence of digits" in place of
\* "not a positive integer"
DigitsOnly(param) == validateId(param) = 0

C25_DigitsOnly == [][\A op \in ReadsOne : ReadOne(op, DigitsOnly)]_vars

\* GET /users/0 was answered 404 after one SELECT
C25_Witness ==
  /\ last.op = "GET /users/:id"
  /\ last.request.param = <<"0">>
  /\ last.status = 404
  /\ last.stmts = 1

(***************************************************************************)
(* C26: the handler of PATCH /articles/:id (PATCH /comments/:id) issues    *)
(* the SELECT on categories (articles) exactly when the payload has a      *)
(* category_id (article_id); without it the request is not answered 404,   *)
(* issues one statement less, and its UPDATE leaves the stored reference   *)
(* as it was.                                                              *)
(***************************************************************************)
RefField(op) == IF op = "PATCH /articles/:id" THEN "category_id" ELSE "article_id"

\* the answer to a PATCH whose handler was reached
PatchAnswered(op) ==
  /\ last' # last
  /\ last'.op = op
  /\ last'.stmts >= 1

LookupIffGiven(op) ==
  PatchAnswered(op) =>
    LET given == Given(last'.request.body, RefField(op))
    IN /\ last'.ref # "none" <=> given
       /\ ~given => last'.status # 404
       /\ last'.status = 200 => last'.stmts = IF given THEN 3 ELSE 2
       /\ last'.status \in {403, 500} => last'.stmts = IF given THEN 2 ELSE 1
       /\ last'.status = 404 => last'.stmts = 1 /\ last'.ref = "missing"

ReferenceKept(op, table, table2) ==
  \A r \in Slots :
    (Updated(r, op) /\ ~Given(req'[r].request.body, RefField(op)))
      => /\ req'[r].ref = "none"
         /\ table2[req'[r].id][RefField(op)] = table[req'[r].id][RefField(op)]

C26_LookupStep ==
  /\ LookupIffGiven("PATCH /articles/:id")
  /\ LookupIffGiven("PATCH /comments/:id")
  /\ ReferenceKept("PATCH /articles/:id", articles, articles')
  /\ ReferenceKept("PATCH /comments/:id", comments, comments')

C26_LookupIffReferenceGiven == [][C26_LookupStep]_vars

\* a PATCH with a title and no category_id was answered 200 after two
\* statements, one with a category_id after three
C26_Witness ==
  /\ last.op = "PATCH /articles/:id"
  /\ last.status = 200
  /\ last.request.body.category_id = NoId
  /\ last.ref = "none"
  /\ last.stmts = 2
  /\ last.id \in DOMAIN articles
  /\ articles[last.id].category_id = 1

(***************************************************************************)
(* C27: every request is answered exactly once.  A request is answered in  *)
(* the step in which it arrives or takes a slot; a request in a slot keeps *)
(* the slot until the one step that answers it, and that step frees the    *)
(* slot; no step answers without a request ending; and, when every storage *)
(* operation completes or fails, a request in a slot is answered at last,  *)
(* whatever the answers to the other requests were.                        *)
(***************************************************************************)
InFlight(q) == q.pc # "idle"

\* the step answers the request in slot r
Answers(r) ==
  /\ InFlight(req[r])
  /\ ~InFlight(req'[r])

ExactlyOneResponse ==
  /\ \A r \in Slots :
       /\ Answers(r) => /\ last'.op = req[r].op
                        /\ last'.request = req[r].request
                        /\ last'.status >= 200
                        /\ \A o \in Slots \ {r} : req'[o] = req[o]
                        /\ started' = started
       \* the request goes on: no answer in this step
       /\ (InFlight(req[r]) /\ InFlight(req'[r]) /\ req'[r] # req[r])
            => /\ req'[r].request = req[r].request
               /\ req'[r].op = req[r].op
               /\ last' = last
       \* a request takes the slot: no answer in this step
       /\ (~InFlight(req[r]) /\ InFlight(req'[r]))
            => /\ started' = started + 1
               /\ last' = last
               /\ \A o \in Slots \ {r} : req'[o] = req[o]
  \* a request answered in the step in which it arrives
  /\ (started' # started /\ req' = req) => last'.status >= 200 /\ last'.stmts <= 1
  \* an answer is the end of one request
  /\ last' # last => \/ \E r \in Slots : Answers(r)
                     \/ started' # started /\ req' = req

C27_ExactlyOneResponse ==
  /\ [][ExactlyOneResponse]_vars
  /\ \A r \in Slots : InFlight(req[r]) ~> ~InFlight(req[r])

\* a request waits for its storage operation after another was answered 500
C27_Witness ==
  /\ last.status = 500
  /\ \E r \in Slots : InFlight(req[r]) /\ req[r].stmts >= 1

(***************************************************************************)
(* C28: on PUT and PATCH of an article or comment the lookup of the        *)
(* referenced category or article comes before the UPDATE that is filtered *)
(* by owner.  A request whose payload names a category (article) that is   *)
(* not stored is answered 404 after that one statement, whoever the caller *)
(* is and whether or not the target exists; a 403 to a request with a      *)
(* reference comes after the lookup found the referenced row.              *)
(***************************************************************************)
ReferencingWrites ==
  {"PUT /articles/:id", "PATCH /articles/:id", "PUT /comments/:id", "PATCH /comments/:id"}

ReferenceOf(op, body) ==
  IF op \in ArticleWrites THEN body.category_id ELSE body.article_id

Referenced(op) == IF op \in ArticleWrites THEN DOMAIN categories ELSE DOMAIN articles

LookupFirst(op) ==
  /\ (AnsweredOnArrival(op) /\ last'.stmts >= 1
        /\ ReferenceOf(op, last'.request.body) # NoId
        /\ ReferenceOf(op, last'.request.body) \notin Referenced(op))
       => /\ last'.status = 404
          /\ last'.stmts = 1
          /\ rows' = rows
  /\ (last' # last /\ last'.op = op /\ last'.status = 403
        /\ ReferenceOf(op, last'.request.body) # NoId)
       => /\ last'.ref = "found"
          /\ last'.stmts = 2
          /\ AnsweredFrom(op, "update")

C28_LookupBeforeOwnership == [][\A op \in ReferencingWrites : LookupFirst(op)]_vars

\* a caller who does not own comment 1 puts it on article 2, which is not
\* stored: 404 after the lookup, not 403
C28_Witness ==
  /\ last.op = "PUT /comments/:id"
  /\ last.authed
  /\ last.id = 1
  /\ last.owner # last.user
  /\ last.request.body.article_id = 2
  /\ 2 \notin DOMAIN articles
  /\ last.status = 404
  /\ last.stmts = 1

(***************************************************************************)
(* C29: the body of the 200 of a PATCH is the target row as the request's  *)
(* own UPDATE left it: it is a row, its id is the id addressed, and each   *)
(* column the payload gives has the payload's value, whatever other        *)
(* requests did to the row between the UPDATE and the SELECT.              *)
(***************************************************************************)
OwnUpdateReturned(op) ==
  (AnsweredFrom(op, "select") /\ last'.op = op) =>
    /\ last'.status = 200
    /\ "id" \in DOMAIN last'.json
    /\ last'.json.id = last'.id
    /\ \A f \in PatchColumns(op) :
         Given(last'.request.body, f) => last'.json[f] = last'.request.body[f]

C29_ReturnsOwnUpdate == [][\A op \in PatchRoutes : OwnUpdateReturned(op)]_vars

\* the part that holds: the body is the row as it is stored when the SELECT
\* runs, and no body when the row is gone
RowAtSelect(op) ==
  CASE op = "PATCH /users/:id" ->
         IF last'.id \in DOMAIN users THEN UserJson(last'.id) ELSE NoJson
    [] op = "PATCH /categories/:id" ->
         IF last'.id \in DOMAIN categories THEN CategoryJson(last'.id) ELSE NoJson
    [] op = "PATCH /articles/:id" ->
         IF last'.id \in DOMAIN articles THEN ArticleRow(last'.id) ELSE NoJson
    [] op = "PATCH /comments/:id" ->
         IF last'.id \in DOMAIN comments THEN CommentRow(last'.id) ELSE NoJson

C29_ReturnsRowAtSelect ==
  [][\A op \in PatchRoutes :
       (AnsweredFrom(op, "select") /\ last'.op = op)
         => last'.status = 200 /\ last'.json = RowAtSelect(op)]_vars

(***************************************************************************)
(* C30: a request that carries a valid token of a user who is no longer    *)
(* stored changes no row of any table, in none of its steps.               *)
(***************************************************************************)
\* q is a request whose token was accepted and whose user is not stored
OfDeletedUser(q) == q.authed /\ q.user \notin DOMAIN users

\* the step is taken for a request of a deleted user: it was answered as it
\* arrived, or it is the step of a slot
ForDeletedUser ==
  \/ started' # started /\ req' = req /\ OfDeletedUser(last')
  \/ \E r \in Slots :
       /\ req'[r] # req[r]
       /\ \/ started' # started /\ OfDeletedUser(req'[r])
          \/ started' = started /\ OfDeletedUser(req[r])

C30_DeletedUserStep == ForDeletedUser => rows' = rows

C30_DeletedUserWritesNothing == [][C30_DeletedUserStep]_vars

\* the part that holds: the rows that have an owner (users, articles, comments)
C30_OwnedRowsStep ==
  ForDeletedUser => UNCHANGED <<users, articles, comments>>

C30_DeletedUserWritesNoOwnedRow == [][C30_OwnedRowsStep]_vars

====
